---- MODULE Spec2Model ----
(***************************************************************************)
(* A model of the multi-provider music resolution layer:                   *)
(*   utils/music_api.py     - song normalisation, quality selection,       *)
(*                            MusicAPI.search / get_song_by_id /           *)
(*                            ensure_download_urls over the mirror list;   *)
(*   utils/ytdlp_provider.py - normalisation of media-library records,     *)
(*                            search_youtube / search_soundcloud and       *)
(*                            refresh_song;                                *)
(*   utils/platform_resolver.py - is_music_url and resolve_url;            *)
(*   utils/lyrics.py        - LyricsFetcher._search_lrclib.                *)
(*                                                                         *)
(* Python values are modelled as follows.  A JSON value whose type the     *)
(* code tests with isinstance is a tagged record [t, v]; a mapping the     *)
(* code reads with .get is a record whose missing keys hold Absent (for    *)
(* strings) or JAbsent (for tagged values); a None song is NoSong.         *)
(***************************************************************************)
EXTENDS Integers, Sequences, FiniteSets, TLC

VARIABLES
    \* -- pure-function harness (normalize_song, _pick_best_url)
    pphase,      \* "raw" | "normalized" | "picked"
    praw,        \* the upstream song record handed to normalize_song
    psong,       \* normalize_song(praw)
    ppref,       \* the quality requested from _pick_best_url
    pout,        \* the URL _pick_best_url returned
    \* -- one canonical song shared by ensure_download_urls and refresh_song
    song,        \* the song dict (mutated in place)
    epc,         \* ensure_download_urls task: "idle" | "await" | "resume" | "ret"
                 \* ("raised": an exception left the call)
    emirror,     \* index into MUSIC_APIS of the GET in flight (0: none)
    egets,       \* GETs issued by the current / most recent ensure call
    ereply,      \* the response of mirror emirror, once it has arrived
    eoutcome,    \* branch the most recent ensure call took
    rpc,         \* refresh_song task: "idle" | "await" | "resume" | "ret"
    rinfo,       \* what the extraction worker delivered
    rextracts,   \* extraction calls made by the current / most recent refresh
    routcome,    \* branch the most recent refresh call took
    \* -- MusicAPI.search
    spc,         \* "idle" | "await" | "resume" | "ret"
    smirror,     \* index into MUSIC_APIS of the GET in flight (0: none)
    scontacted,  \* the mirrors contacted by this call, in order
    sreply,      \* the response of mirror smirror, once it has arrived
    sreplies,    \* status and error of every response so far, in order
    sresult,     \* the value search returned
    \* -- normalize_song on whole upstream records
    nphase,      \* "raw" | "done"
    nraw,        \* the upstream record handed to normalize_song
    nout,        \* what the call produced: the song's fields, or the exception
    \* -- is_music_url and resolve_url on one text
    utext,       \* the text both are called with
    umusic,      \* what is_music_url returned ("unset" before the call)
    umatch,      \* SPOTIFY_PATTERN.search(text): None, or group(1) of the match
    uargs,       \* the positional arguments of a direct call of a resolver
    ucall,       \* the function called: "none" | "resolve_url" | "_resolve_deezer"
    upc,         \* "idle" | "await" | "resume" | "ret" ("raised": an exception
                 \* left the call)
    uvia,        \* the resolver the call went to ("none": no resolver)
    ureqs,       \* the URLs of the GETs issued by the call, in order
    ureply,      \* the response, once it has arrived
    uresult,     \* the value the call returned
    \* -- search_youtube / search_soundcloud
    ypc,         \* "idle" | "executor" | "resume" | "ret" ("raised": an
                 \* exception left the call)
    ysource,     \* the source tag of the function called
    yextract,    \* what the import and extract_info did in the worker
    yraw,        \* the list _ytdlp_search_sync handed back
    yresult,     \* the list the search returned, or the exception
    \* -- LyricsFetcher._search_lrclib
    lpc,         \* "idle" | "await" | "resume" | "ret" ("raised": an exception
                 \* left the call)
    lreqs,       \* GETs issued by the call
    lreply,      \* the response, once it has arrived
    lresult,     \* the value the call returned
    \* -- LyricsFetcher.search and _search_lyrics_ovh
    fcall,       \* the function called: "none" | "search" | "_search_lyrics_ovh"
    fpc,         \* "idle" | "await" | "resume" | "ret"
    fquery,      \* the query, artist and title arguments
    fartist,
    ftitle,
    fstep,       \* the provider call in flight: "lrclib" | "explicit" | "split" |
                 \* "direct"
    freqs,       \* the GETs issued by the call, in order
    fouts,       \* what each answered GET gave: the lyrics result or None
    freply,      \* the response, once it has arrived
    fresult,     \* the value the call returned
    \* -- MusicAPI.get_song_by_id
    gpc,         \* "idle" | "await" | "resume" | "ret" ("raised": an exception
                 \* left the call)
    gmirror,     \* index into MUSIC_APIS of the GET in flight (0: none)
    gcontacted,  \* the mirrors contacted by this call, in order
    greply,      \* the response of mirror gmirror, once it has arrived
    gresult,     \* the value get_song_by_id returned
    \* -- _extract_audio_url on one record
    aphase,      \* "raw" | "done"
    ainfo,       \* the info record handed to _extract_audio_url
    aurl,        \* the URL it returned
    \* -- _get_url_for_quality beside _pick_best_url
    qphase,      \* "raw" | "done"
    qlist,       \* the download_urls list handed to both functions
    qquality,    \* the quality handed to both functions
    qout,        \* what _get_url_for_quality returned
    qbest,       \* what _pick_best_url returned
    \* -- the event loop: a ytdlp_provider call, its worker, another task
    kcall,       \* "none" | "search_youtube" | "search_soundcloud" | "extract_stream_url"
    kpc,         \* "idle" | "await" | "ret" | "raised"
    kjob,        \* the blocking extraction: "none" | "queued" | "running" | "done"
    kthread,     \* the thread the extraction was handed to: "none" | "worker" | "loop"
    kurl,        \* the webpage_url handed to extract_stream_url
    kextract,    \* what the search extraction did
    kinfo,       \* what the stream extraction delivered
    kresult,     \* what the search call returned
    ksong,       \* what extract_stream_url returned
    kother,      \* steps another task of the loop has taken
    kduring,     \* those of them taken while the extraction was in flight
    \* -- WebSearcher: calls of search and search_news one after another
    wpc,         \* "idle" | "await" | "ret"
    wtype,       \* "web" (search) | "news" (search_news)
    wquery,      \* the query of the call
    wcache,      \* self._cache: key -> (timestamp, response)
    wnow,        \* time.time()
    wbefore,     \* self._cache as the call found it
    wupstream,   \* upstream searches the call has started
    wresp        \* the response the call returned

pvars == <<pphase, praw, psong, ppref, pout>>
evars == <<song, epc, emirror, egets, ereply, eoutcome, rpc, rinfo, rextracts, routcome>>
svars == <<spc, smirror, scontacted, sreply, sreplies, sresult>>
nvars == <<nphase, nraw, nout>>
uvars == <<utext, umusic, umatch, uargs, ucall, upc, uvia, ureqs, ureply, uresult>>
yvars == <<ypc, ysource, yextract, yraw, yresult>>
lvars == <<lpc, lreqs, lreply, lresult>>
fvars == <<fcall, fpc, fquery, fartist, ftitle, fstep, freqs, fouts, freply, fresult>>
gvars == <<gpc, gmirror, gcontacted, greply, gresult>>
avars == <<aphase, ainfo, aurl>>
qvars == <<qphase, qlist, qquality, qout, qbest>>
kvars == <<kcall, kpc, kjob, kthread, kurl, kextract, kinfo, kresult, ksong, kother, kduring>>
wvars == <<wpc, wtype, wquery, wcache, wnow, wbefore, wupstream, wresp>>
vars == <<pvars, evars, svars, nvars, uvars, yvars, lvars, fvars, gvars, avars, qvars, kvars, wvars>>

\* the variables each harness leaves alone
notPick == <<evars, svars, nvars, uvars, yvars, lvars, fvars, gvars, avars, qvars, kvars, wvars>>
notSong == <<pvars, svars, nvars, uvars, yvars, lvars, fvars, gvars, avars, qvars, kvars, wvars>>
notSearch == <<pvars, evars, nvars, uvars, yvars, lvars, fvars, gvars, avars, qvars, kvars, wvars>>
notNorm == <<pvars, evars, svars, uvars, yvars, lvars, fvars, gvars, avars, qvars, kvars, wvars>>
notResolve == <<pvars, evars, svars, nvars, yvars, lvars, fvars, gvars, avars, qvars, kvars, wvars>>
notYt == <<pvars, evars, svars, nvars, uvars, lvars, fvars, gvars, avars, qvars, kvars, wvars>>
notLyrics == <<pvars, evars, svars, nvars, uvars, yvars, fvars, gvars, avars, qvars, kvars, wvars>>
notFetch == <<pvars, evars, svars, nvars, uvars, yvars, lvars, gvars, avars, qvars, kvars, wvars>>
notGet == <<pvars, evars, svars, nvars, uvars, yvars, lvars, fvars, avars, qvars, kvars, wvars>>
notAudio == <<pvars, evars, svars, nvars, uvars, yvars, lvars, fvars, gvars, qvars, kvars, wvars>>
notQuality == <<pvars, evars, svars, nvars, uvars, yvars, lvars, fvars, gvars, avars, kvars, wvars>>
notLoop == <<pvars, evars, svars, nvars, uvars, yvars, lvars, fvars, gvars, avars, qvars, wvars>>
notWeb == <<pvars, evars, svars, nvars, uvars, yvars, lvars, fvars, gvars, avars, qvars, kvars>>

-----------------------------------------------------------------------------
(* Bounds of the model *)

\* longest upstream downloadUrl list handed to normalize_song on its own
MaxRawLen == 3
\* longest downloadUrl list of a record a mirror or the song source delivers
MaxFetchLen == 2
\* longest result list of a search response body
MaxResults == 2
\* longest primaryArtists list of an upstream record
MaxArtists == 2
\* longest image list of an upstream record
MaxImages == 3
\* most blanks before and after a link in a text
MaxPad == 1

\* WEB_SEARCH_CACHE_TTL, in ticks of the model's clock (config/constants.py
\* sets the program's value)
CacheTtl == 2

\* the clock of the web-search model stops here
MaxTime == 3

\* _set_cached evicts expired entries when the cache holds more entries than
\* this; the program's threshold is 200, the model lowers it so that the
\* eviction happens
EvictAbove == 0

\* most steps the other task of the event loop takes
MaxOtherSteps == 2

\* longest download_urls list handed to _get_url_for_quality
MaxUrls == 2

\* longest requested_formats list of a record handed to _extract_audio_url
MaxFormats == 2

\* longest entries list a media-library search delivers
MaxEntries == 2

\* longest list an LRCLIB search answers with
MaxLyricsEntries == 2

-----------------------------------------------------------------------------
(* Python values *)

Absent == "<absent>"

HasText(x) == x # "" /\ x # Absent

JList(s) == [t |-> "list", v |-> s]
JOther == [t |-> "other", v |-> <<>>]
JAbsent == [t |-> "absent", v |-> <<>>]

\* Python truthiness of a tagged value: a non-empty list or any other
\* non-empty value; a missing key (None) and [] are falsy.
Truthy(j) == j.t = "other" \/ (j.t = "list" /\ j.v # <<>>)

Range(s) == {s[i] : i \in 1..Len(s)}

Min(S) == CHOOSE x \in S : \A y \in S : x <= y

Max(S) == CHOOSE x \in S : \A y \in S : x >= y

SeqsUpTo(S, n) == UNION {[1..k -> S] : k \in 0..n}

-----------------------------------------------------------------------------
(* music_api.py: constants *)

MUSIC_APIS ==
    << "https://jiosaavn-api2.vercel.app",
       "https://jiosaavn-api-privatecvc2.vercel.app",
       "https://saavn.dev/api",
       "https://jiosaavn-api.vercel.app" >>

QUALITY_TIERS == <<"12kbps", "48kbps", "96kbps", "160kbps", "320kbps">>

DefaultPreferred == "320kbps"

-----------------------------------------------------------------------------
(* music_api.py: normalisation helpers *)

\* html.unescape on the texts the model uses.
HtmlUnescape(text) ==
    IF text = "Tom &amp; Jerry" THEN "Tom & Jerry" ELSE text

_safe_unescape(text) ==
    IF text = "" \/ text = Absent THEN "" ELSE HtmlUnescape(text)

\* entry.get("url") or entry.get("link") or ""
_extract_url(entry) ==
    IF entry.url # "" /\ entry.url # Absent THEN entry.url
    ELSE IF entry.link # "" /\ entry.link # Absent THEN entry.link
    ELSE ""

KeepsEntry(entry) ==
    entry.isdict /\ entry.quality # "" /\ entry.quality # Absent
                 /\ _extract_url(entry) # ""

\* a faulty variant: keeps only the first usable entry of each quality
ExtractDedup(s) ==
    LET raw == IF Truthy(s.downloadUrl) THEN s.downloadUrl
               ELSE IF Truthy(s.download_url) THEN s.download_url
               ELSE JList(<<>>)
        idx == {i \in 1..Len(raw.v) : KeepsEntry(raw.v[i])
                  /\ \A j \in 1..(i-1) : ~(KeepsEntry(raw.v[j])
                                           /\ raw.v[j].quality = raw.v[i].quality)}
        kept == SelectSeq([i \in 1..Len(raw.v) |-> <<i, raw.v[i]>>],
                          LAMBDA p : p[1] \in idx)
    IN  IF raw.t # "list" THEN <<>>
        ELSE [k \in 1..Len(kept) |->
                 [quality |-> kept[k][2].quality, url |-> _extract_url(kept[k][2])]]

_extract_download_urls(s) ==
    LET raw == IF Truthy(s.downloadUrl) THEN s.downloadUrl
               ELSE IF Truthy(s.download_url) THEN s.download_url
               ELSE JList(<<>>)
        kept == SelectSeq(raw.v, KeepsEntry)
    IN  IF raw.t # "list" THEN <<>>
        ELSE [k \in 1..Len(kept) |->
                 [quality |-> kept[k].quality, url |-> _extract_url(kept[k])]]

-----------------------------------------------------------------------------
(* music_api.py: the quality selector *)

\* QUALITY_TIERS.index(q)
TierIndex(q) == CHOOSE i \in 1..Len(QUALITY_TIERS) : QUALITY_TIERS[i] = q

\* a faulty variant: falls back to the tiers above preferred
PreferenceOrderUp(preferred) ==
    IF preferred \in Range(QUALITY_TIERS)
    THEN <<preferred>> \o
         [k \in 1..(Len(QUALITY_TIERS) - TierIndex(preferred)) |->
             QUALITY_TIERS[TierIndex(preferred) + k]]
    ELSE <<preferred>>

\* preference_order: [preferred], then for i in range(idx - 1, -1, -1) the
\* tiers below it
preference_order(preferred) ==
    IF preferred \in Range(QUALITY_TIERS)
    THEN <<preferred>> \o
         [k \in 1..(TierIndex(preferred) - 1) |->
             QUALITY_TIERS[TierIndex(preferred) - k]]
    ELSE <<preferred>>

\* a faulty variant: the first entry of a quality wins
UrlMapFirst(download_urls) ==
    [q \in {download_urls[i].quality : i \in 1..Len(download_urls)} |->
        download_urls[Min({i \in 1..Len(download_urls) :
                              download_urls[i].quality = q})].url]

\* {d["quality"]: d["url"] for d in download_urls}: a later entry of a
\* quality replaces an earlier one
url_map(download_urls) ==
    [q \in {download_urls[i].quality : i \in 1..Len(download_urls)} |->
        download_urls[Max({i \in 1..Len(download_urls) :
                              download_urls[i].quality = q})].url]

\* reversed(QUALITY_TIERS)
ReversedTiers ==
    [k \in 1..Len(QUALITY_TIERS) |-> QUALITY_TIERS[Len(QUALITY_TIERS) + 1 - k]]

\* for q in order: if q in m: return m[q]
FirstIn(order, m) ==
    LET hits == {i \in 1..Len(order) : order[i] \in DOMAIN m}
    IN  IF hits = {} THEN Absent ELSE m[order[Min(hits)]]

_pick_best_url(download_urls, preferred) ==
    IF download_urls = <<>> THEN ""
    ELSE LET m == url_map(download_urls)
             byPreference == FirstIn(preference_order(preferred), m)
             byTier == FirstIn(ReversedTiers, m)
         IN  IF byPreference # Absent THEN byPreference
             ELSE IF byTier # Absent THEN byTier
             ELSE download_urls[Len(download_urls)].url

\* a faulty variant: the direct lookup takes the first entry of the quality
GetUrlForQualityFirst(download_urls, quality) ==
    LET m == UrlMapFirst(download_urls)
    IN  IF quality \in DOMAIN m THEN m[quality]
        ELSE _pick_best_url(download_urls, quality)

\* url_map = {...}; if quality in url_map: return url_map[quality];
\* return _pick_best_url(download_urls, quality)
_get_url_for_quality(download_urls, quality) ==
    LET m == url_map(download_urls)
    IN  IF quality \in DOMAIN m THEN m[quality]
        ELSE _pick_best_url(download_urls, quality)

\* normalize_song, restricted to the fields the model follows.  A song of
\* the primary provider carries no source and no webpage_url key.
normalize_song(s) ==
    LET download_urls == _extract_download_urls(s)
    IN  [ id            |-> IF s.id = Absent THEN "" ELSE s.id,
          name          |-> _safe_unescape(IF s.name = Absent THEN "Unknown"
                                                               ELSE s.name),
          download_urls |-> download_urls,
          best_url      |-> _pick_best_url(download_urls, DefaultPreferred),
          source        |-> Absent,
          webpage_url   |-> Absent ]

-----------------------------------------------------------------------------
(* Inputs of the pure-function harness *)

RawQualities == {"", "48kbps", "96kbps", "320kbps", "128kbps"}
RawUrls == {"", "a", "b"}

NonDictEntry == [isdict |-> FALSE, quality |-> "", url |-> "", link |-> ""]

RawEntries ==
    [isdict : {TRUE}, quality : RawQualities, url : RawUrls, link : {Absent}]
    \cup {[isdict |-> TRUE, quality |-> "320kbps", url |-> Absent, link |-> "c"],
          [isdict |-> TRUE, quality |-> "96kbps", url |-> "", link |-> "c"],
          NonDictEntry}

Preferences == Range(QUALITY_TIERS) \cup {"128kbps", "256kbps"}

RawSongsOf(lists) ==
    {[id |-> "s1", name |-> "Song A", downloadUrl |-> JList(l),
      download_url |-> JAbsent] : l \in lists}
    \cup {[id |-> "s1", name |-> "Song A", downloadUrl |-> JAbsent,
           download_url |-> JList(l)] : l \in {m \in lists : Len(m) <= 1}}
    \cup {[id |-> "s1", name |-> "Song A", downloadUrl |-> JOther,
           download_url |-> JList(l)] : l \in {m \in lists : Len(m) <= 1}}

NoSong ==
    [id |-> Absent, name |-> Absent, download_urls |-> <<>>, best_url |-> Absent,
     source |-> Absent, webpage_url |-> Absent]

-----------------------------------------------------------------------------
(* ytdlp_provider.py: normalisation of a media-library record *)

\* _extract_audio_url: the first requested format with an audio codec other
\* than "none" and a video codec of "none" or None gives fmt.get("url", url)
_extract_audio_url(info) ==
    LET url == IF info.url = Absent THEN "" ELSE info.url
        fmts == info.requested_formats
        hits == {i \in 1..Len(fmts) :
                    fmts[i].acodec # "none" /\ fmts[i].vcodec \in {"none", Absent}}
    IN  IF hits = {} THEN url
        ELSE IF fmts[Min(hits)].url = Absent THEN url ELSE fmts[Min(hits)].url

\* f"{abr}kbps" if abr else "320kbps"
QualityLabel(abr) == IF abr # 0 THEN ToString(abr) \o "kbps" ELSE "320kbps"

normalize_ytdlp_result(info, source) ==
    LET audio_url == _extract_audio_url(info)
        download_urls ==
            IF audio_url # ""
            THEN <<[quality |-> QualityLabel(info.abr), url |-> audio_url]>>
            ELSE <<>>
    IN  [ id            |-> IF HasText(info.id) THEN info.id ELSE "",
          name          |-> IF HasText(info.track) THEN info.track
                            ELSE IF HasText(info.title) THEN info.title ELSE "Unknown",
          download_urls |-> download_urls,
          best_url      |-> audio_url,
          source        |-> source,
          webpage_url   |-> IF HasText(info.webpage_url) THEN info.webpage_url
                            ELSE IF HasText(info.original_url) THEN info.original_url
                            ELSE "" ]

\* "soundcloud.com" in (webpage_url or "")
ContainsSoundcloud(u) == u \in {"https://soundcloud.com/t1"}

\* extract_stream_url once the worker has delivered info (None: NoSong)
extract_stream_url(webpage_url, info) ==
    IF info.none THEN NoSong
    ELSE normalize_ytdlp_result(
             info, IF ContainsSoundcloud(webpage_url) THEN "soundcloud" ELSE "youtube")

\* a faulty variant: tests the source tag instead of webpage_url
LacksSourceTag(s) == s.source = Absent

\* refresh_song, line 242: not webpage_url
LacksWebpageUrl(s) == s.webpage_url = Absent \/ s.webpage_url = ""

\* a faulty variant: overwrites whenever extraction delivered a record
RefreshWriteAlways(s, refreshed) ==
    IF refreshed # NoSong
    THEN [s EXCEPT !.best_url = refreshed.best_url,
                   !.download_urls = refreshed.download_urls]
    ELSE s

\* refresh_song, lines 246-249
refresh_write(s, refreshed) ==
    IF refreshed # NoSong /\ refreshed.best_url # ""
    THEN [s EXCEPT !.best_url = refreshed.best_url,
                   !.download_urls = refreshed.download_urls]
    ELSE s

-----------------------------------------------------------------------------
(* music_api.py: get_song_by_id and ensure_download_urls *)

NoRaw ==
    [id |-> Absent, name |-> Absent, downloadUrl |-> JAbsent, download_url |-> JAbsent]

NoItem == [isdict |-> FALSE, rec |-> NoRaw]

DictItem(r) == [isdict |-> TRUE, rec |-> r]

\* JSON nodes of a response body.  t is "absent", "list", "dict" or "other";
\* a list holds items, a dict holds the song fields rec and, one level down,
\* its "results" and "data" members.
Leaf(t, items, rec) == [t |-> t, items |-> items, rec |-> rec]
NoLeaf == Leaf("absent", <<>>, NoRaw)
Inner(t, items, rec, results, data) ==
    [t |-> t, items |-> items, rec |-> rec, results |-> results, data |-> data]
NoInner == Inner("absent", <<>>, NoRaw, NoLeaf, NoLeaf)
Body(t, rec, data) == [t |-> t, rec |-> rec, data |-> data]

TruthyNode(n) == n.t \in {"dict", "other"} \/ (n.t = "list" /\ n.items # <<>>)

\* a faulty variant: a top-level id is used whatever data holds
UnwrapSongTopLevelFirst(data) ==
    IF data.t # "dict" THEN NoItem
    ELSE IF HasText(data.rec.id) THEN DictItem(data.rec)
    ELSE LET inner == data.data
         IN  IF inner.t = "list" /\ inner.items # <<>> THEN inner.items[1]
             ELSE IF inner.t = "dict" /\ HasText(inner.rec.id) THEN DictItem(inner.rec)
             ELSE NoItem

\* get_song_by_id, lines 280-296: the record a 200 body holds, or NoItem
UnwrapSong(data) ==
    IF data.t # "dict" THEN NoItem
    ELSE LET inner == data.data
         IN  IF inner.t = "list" /\ inner.items # <<>> THEN inner.items[1]
             ELSE IF inner.t = "dict"
             THEN IF HasText(inner.rec.id) THEN DictItem(inner.rec)
                  ELSE LET results == IF TruthyNode(inner.results)
                                      THEN inner.results ELSE inner.data
                       IN  IF results.t = "list" /\ results.items # <<>>
                           THEN results.items[1]
                           ELSE IF results.t = "dict" /\ HasText(results.rec.id)
                           THEN DictItem(results.rec)
                           ELSE NoItem
             ELSE IF HasText(data.rec.id) THEN DictItem(data.rec)
             ELSE NoItem

\* get_song_by_id, lines 304-307 (and search, lines 252-255): the except
\* clauses take asyncio.TimeoutError and every Exception
Caught(err) == err \in {"timeout", "exception"}

\* get_song_by_id, one pass of the loop over MUSIC_APIS: the normalised song
\* this mirror's response yields, or NoSong when the loop moves on
MirrorSong(reply) ==
    IF reply.err # "none" \/ reply.status # "200" THEN NoSong
    ELSE LET song_data == UnwrapSong(reply.body)
         IN  IF ~song_data.isdict THEN NoSong
             ELSE IF normalize_song(song_data.rec).id = "" THEN NoSong
             ELSE normalize_song(song_data.rec)

\* a faulty variant: reads a key canonical songs never carry, so no song
\* counts as complete
AlreadyCompleteWrongKey(s) == FALSE /\ s.best_url # ""

\* ensure_download_urls, line 319
AlreadyComplete(s) == s.download_urls # <<>> /\ s.best_url # ""

\* a faulty variant: replaces the whole song by the fetched one
EnsureWriteWholeSong(s, full_song) ==
    IF full_song # NoSong /\ full_song.download_urls # <<>> THEN full_song ELSE s

\* a faulty variant: forgets best_url
EnsureWriteListOnly(s, full_song) ==
    IF full_song # NoSong /\ full_song.download_urls # <<>>
    THEN [s EXCEPT !.download_urls = full_song.download_urls]
    ELSE s
\* a faulty variant: only download_urls is written on resuming; best_url is
\* left for a later step
EnsureWriteUrlsOnly(s, full_song) ==
    IF full_song # NoSong /\ full_song.download_urls # <<>>
    THEN [s EXCEPT !.download_urls = full_song.download_urls]
    ELSE s


\* ensure_download_urls, lines 328-330
ensure_write(s, full_song) ==
    IF full_song # NoSong /\ full_song.download_urls # <<>>
    THEN [s EXCEPT !.download_urls = full_song.download_urls,
                   !.best_url = full_song.best_url]
    ELSE s

-----------------------------------------------------------------------------
(* Inputs of the song life cycle *)

UrlEntry(q, u) == [isdict |-> TRUE, quality |-> q, url |-> u, link |-> Absent]

\* downloadUrl lists of the records songs are first normalised from
SongEntries == {UrlEntry("96kbps", "a"), UrlEntry("320kbps", "b"),
                UrlEntry("128kbps", "a")}

\* downloadUrl lists of the records get_song_by_id receives
FetchEntries == {UrlEntry("96kbps", "c"), UrlEntry("320kbps", "d"),
                 UrlEntry("128kbps", "e")}

RawSong(id, name, l) ==
    [id |-> id, name |-> name, downloadUrl |-> JList(l), download_url |-> JAbsent]

SongRecords ==
    {RawSong(id, "Song A", l) :
        id \in {Absent, "s1"}, l \in SeqsUpTo(SongEntries, MaxFetchLen)}

FetchRecords ==
    {RawSong(id, "Tom &amp; Jerry", l) :
        id \in {Absent, "s1"}, l \in SeqsUpTo(FetchEntries, MaxFetchLen)}

\* a few records for the rarer envelope shapes
FewRecords ==
    {RawSong("s1", "Tom &amp; Jerry", <<UrlEntry("320kbps", "d")>>),
     RawSong("s1", "Tom &amp; Jerry", <<>>),
     RawSong(Absent, "Tom &amp; Jerry", <<UrlEntry("96kbps", "c")>>)}

SongBodies ==
    {Body("dict", NoRaw, Inner("list", <<DictItem(r)>>, NoRaw, NoLeaf, NoLeaf)) :
        r \in FetchRecords}
    \cup {Body("dict", NoRaw, Inner("dict", <<>>, r, NoLeaf, NoLeaf)) : r \in FewRecords}
    \cup {Body("dict", NoRaw,
               Inner("dict", <<>>, NoRaw, Leaf("list", <<DictItem(r)>>, NoRaw), NoLeaf)) :
            r \in FewRecords}
    \cup {Body("dict", NoRaw,
               Inner("dict", <<>>, NoRaw, NoLeaf, Leaf("dict", <<>>, r))) :
            r \in FewRecords}
    \cup {Body("dict", r, NoInner) : r \in FewRecords}
    \cup {Body("dict", r, Inner("list", <<>>, NoRaw, NoLeaf, NoLeaf)) : r \in FewRecords}
    \cup {Body("dict", NoRaw, Inner("list", <<NoItem>>, NoRaw, NoLeaf, NoLeaf)),
          Body("dict", NoRaw, Inner("other", <<>>, NoRaw, NoLeaf, NoLeaf)),
          Body("other", NoRaw, NoInner)}

NoBody == Body("absent", NoRaw, NoInner)

NoReply == [status |-> Absent, err |-> "none", body |-> NoBody]

\* what a mirror can answer: a non-200 status, a timeout, a transport or
\* JSON exception, or a 200 with a body
FailedReplies ==
    {[status |-> "500", err |-> "none", body |-> NoBody],
     [status |-> Absent, err |-> "timeout", body |-> NoBody],
     [status |-> Absent, err |-> "exception", body |-> NoBody],
     [status |-> "200", err |-> "exception", body |-> NoBody]}

SongReplies ==
    FailedReplies \cup {[status |-> "200", err |-> "none", body |-> b] : b \in SongBodies}

Format(acodec, vcodec, url) == [acodec |-> acodec, vcodec |-> vcodec, url |-> url]

Info(id, url, fmts, abr, wp) ==
    [none |-> FALSE, id |-> id, track |-> Absent, title |-> "Video B", url |-> url,
     requested_formats |-> fmts, abr |-> abr, webpage_url |-> wp,
     original_url |-> Absent]

NoneInfo ==
    [none |-> TRUE, id |-> Absent, track |-> Absent, title |-> Absent, url |-> Absent,
     requested_formats |-> <<>>, abr |-> 0, webpage_url |-> Absent,
     original_url |-> Absent]

PageUrls == {"https://youtu.be/v1", "https://soundcloud.com/t1"}

FormatLists ==
    {<<>>,
     <<Format("opus", "none", "y2")>>,
     <<Format("none", "vp9", "y3"), Format("opus", Absent, Absent)>>,
     <<Format("opus", "none", "")>>,
     <<Format("opus", "vp9", "y3")>>}

Infos ==
    {Info(id, url, fmts, abr, wp) :
        id \in {"v1"}, url \in {Absent, "y1"}, fmts \in FormatLists,
        abr \in {0, 128}, wp \in PageUrls \cup {Absent}}

\* what the extraction worker can deliver: None, or an info record
ExtractResults == {NoneInfo} \cup Infos

InitialSongs ==
    {normalize_song(r) : r \in SongRecords}
    \cup {normalize_ytdlp_result(i, src) : i \in Infos, src \in {"youtube", "soundcloud"}}

-----------------------------------------------------------------------------
(* music_api.py: MusicAPI.search *)

\* normalize_songs: the dicts of the list, normalised in order
normalize_songs(songs) ==
    LET dicts == SelectSeq(songs, LAMBDA item : item.isdict)
    IN  [k \in 1..Len(dicts) |-> normalize_song(dicts[k].rec)]

\* JSON of a search response: data.data is SInner, data.data.data is SDeep;
\* every "results" member is a tagged value (JAbsent when the key is missing)
SDeep(t, results) == [t |-> t, results |-> results]
SInner(t, results, data) == [t |-> t, results |-> results, data |-> data]
SBody(t, data, results) == [t |-> t, data |-> data, results |-> results]

NoSDeep == SDeep("absent", JAbsent)
NoSInner == SInner("absent", JAbsent, NoSDeep)
NoSBody == SBody("absent", NoSInner, JAbsent)

\* search, lines 228-241: the value of `results` after the unwrapping
UnwrapResults(data) ==
    IF data.t # "dict" THEN JAbsent
    ELSE LET inner == data.data
             first == IF inner.t = "dict" THEN inner.results ELSE JAbsent
             second == IF inner.t = "dict" /\ first.t = "absent" /\ inner.data.t = "dict"
                       THEN inner.data.results ELSE first
         IN  IF second.t = "absent" THEN data.results ELSE second

\* a faulty variant: the status is not looked at
SearchMirrorResultAnyStatus(reply) ==
    IF reply.err # "none" THEN JAbsent
    ELSE LET results == UnwrapResults(reply.body)
         IN  IF results.t = "list" /\ results.v # <<>> /\ normalize_songs(results.v) # <<>>
             THEN JList(normalize_songs(results.v))
             ELSE JAbsent

\* a faulty variant: the status test is inverted
SearchMirrorResultInverted(reply) ==
    IF reply.err # "none" \/ reply.status = "200" THEN JAbsent
    ELSE LET results == UnwrapResults(reply.body)
         IN  IF results.t = "list" /\ results.v # <<>> /\ normalize_songs(results.v) # <<>>
             THEN JList(normalize_songs(results.v))
             ELSE JAbsent

\* search, one pass of the loop over MUSIC_APIS (lines 214-255): the list
\* search returns for this mirror's response, or JAbsent when the loop
\* moves on
SearchMirrorResult(reply) ==
    IF reply.err # "none" \/ reply.status # "200" THEN JAbsent
    ELSE LET results == UnwrapResults(reply.body)
         IN  IF results.t = "list" /\ results.v # <<>> /\ normalize_songs(results.v) # <<>>
             THEN JList(normalize_songs(results.v))
             ELSE JAbsent

\* the items of a search result list
ResultItems ==
    {DictItem(RawSong("s1", "Song A", <<UrlEntry("320kbps", "b")>>)), NoItem}

ResultValues ==
    {JAbsent, JOther} \cup {JList(l) : l \in SeqsUpTo(ResultItems, MaxResults)}

\* the values of the doubly wrapped data.data.data.results
DeepValues ==
    {JAbsent, JOther, JList(<<>>),
     JList(<<DictItem(RawSong("s2", "Tom &amp; Jerry", <<UrlEntry("96kbps", "c")>>))>>)}

SearchBodies ==
    {SBody("dict", SInner("dict", r1, SDeep("dict", r2)), r3) :
        r1 \in ResultValues, r2 \in DeepValues, r3 \in ResultValues}
    \cup {SBody("dict", SInner("dict", r1, NoSDeep), r3) :
            r1 \in {JAbsent, JList(<<>>)}, r3 \in ResultValues}
    \cup {SBody("dict", SInner(t, JAbsent, NoSDeep), r3) :
            t \in {"absent", "other"}, r3 \in ResultValues}
    \cup {SBody("other", NoSInner, JAbsent)}

\* bodies some mirrors send along with an error status
ErrorBodies ==
    {SBody("dict", NoSInner, JAbsent),
     SBody("dict", SInner("dict", JList(<<DictItem(RawSong("s1", "Song A", <<>>))>>),
                          NoSDeep), JAbsent)}

NoSearchReply == [status |-> Absent, err |-> "none", body |-> NoSBody]

\* what a mirror can answer: a non-200 status (with or without a body), a
\* timeout, a transport or JSON exception, or a 200 with a body
SearchReplies ==
    {[status |-> "500", err |-> "none", body |-> b] : b \in ErrorBodies}
    \cup {[status |-> Absent, err |-> "timeout", body |-> NoSBody],
          [status |-> Absent, err |-> "exception", body |-> NoSBody],
          [status |-> "200", err |-> "exception", body |-> NoSBody]}
    \cup {[status |-> "200", err |-> "none", body |-> b] : b \in SearchBodies}

-----------------------------------------------------------------------------
(* music_api.py: normalize_song on whole upstream records *)

\* A Python scalar read from JSON.  t is "absent" (the key is missing),
\* "none", "str", "int", "float" or "list"; v is str(value).
PyVal(t, v) == [t |-> t, v |-> v]
PyAbsent == PyVal("absent", "")
PyNone == PyVal("none", "None")
PyStr(v) == PyVal("str", v)
PyInt(v) == PyVal("int", v)
PyFloat(v) == PyVal("float", v)
PyListVal == PyVal("list", "['x']")

\* bool(x)
PyTruthy(x) ==
    /\ x.t \notin {"absent", "none"}
    /\ ~(x.t = "str" /\ x.v = "")
    /\ ~(x.t \in {"int", "float"} /\ x.v \in {"0", "0.0"})

\* the exceptions a call can end with
NoError == "none"
TypeError == "<TypeError>"
OverflowError == "<OverflowError>"

\* _safe_unescape on a value of any type: "" for a falsy one, str(text) for
\* a non-string, html.unescape(text) for a string
_safe_unescape_value(x) ==
    IF ~PyTruthy(x) THEN ""
    ELSE IF x.t # "str" THEN x.v
    ELSE HtmlUnescape(x.v)

RECURSIVE Join(_, _)
\* sep.join(strs)
Join(strs, sep) ==
    IF strs = <<>> THEN ""
    ELSE IF Len(strs) = 1 THEN strs[1]
    ELSE strs[1] \o sep \o Join(Tail(strs), sep)

\* [a.get("name", "") for a in items if isinstance(a, dict)]
NamesOf(items) ==
    LET dicts == SelectSeq(items, LAMBDA a : a.isdict)
    IN  [k \in 1..Len(dicts) |->
            IF dicts[k].name.t = "absent" THEN PyStr("") ELSE dicts[k].name]

\* ", ".join(n for n in names if n): str.join raises TypeError on an item
\* that is not a string
JoinNames(names) ==
    LET kept == SelectSeq(names, PyTruthy)
    IN  IF \E i \in 1..Len(kept) : kept[i].t # "str" THEN TypeError
        ELSE Join([k \in 1..Len(kept) |-> kept[k].v], ", ")

\* _extract_artist: the artist string, or TypeError when the join raises
_extract_artist(s) ==
    IF s.primaryArtists.t = "str" /\ s.primaryArtists.s # ""
    THEN _safe_unescape(s.primaryArtists.s)
    ELSE IF s.primaryArtists.t = "list" /\ NamesOf(s.primaryArtists.items) # <<>>
    THEN LET joined == JoinNames(NamesOf(s.primaryArtists.items))
         IN  IF joined = TypeError THEN TypeError ELSE _safe_unescape(joined)
    ELSE IF /\ s.artists.t = "dict" /\ s.artists.primary.t = "list"
            /\ s.artists.primary.items # <<>>
            /\ JoinNames(NamesOf(s.artists.primary.items)) # ""
    THEN LET joined == JoinNames(NamesOf(s.artists.primary.items))
         IN  IF joined = TypeError THEN TypeError ELSE _safe_unescape(joined)
    ELSE IF PyTruthy(s.artist) THEN _safe_unescape_value(s.artist)
    ELSE "Unknown"

\* a faulty variant: the last entry is taken whatever the qualities are
ExtractImageLast(s) ==
    IF s.image.t # "list" \/ s.image.items = <<>> THEN ""
    ELSE IF s.image.items[Len(s.image.items)].isdict
         THEN _extract_url(s.image.items[Len(s.image.items)])
         ELSE ""

\* _extract_image
_extract_image(s) ==
    IF s.image.t # "list" \/ s.image.items = <<>> THEN ""
    ELSE LET images == s.image.items
             hits == {i \in 1..Len(images) :
                         images[i].isdict /\ images[i].quality = "500x500"}
         IN  IF hits # {} THEN _extract_url(images[Min(hits)])
             ELSE IF images[Len(images)].isdict
                  THEN _extract_url(images[Len(images)])
                  ELSE ""

\* int(x): the integer, or the exception int raises
IntResult(err, n) == [err |-> err, n |-> n]

\* the numbers the model's numeric texts stand for, truncated towards zero
NumberOf(v) ==
    CASE v \in {"0", "0.0"} -> 0
      [] v = "59" -> 59
      [] v \in {"215", "215.9"} -> 215
      [] v = "3600" -> 3600

NumericTexts == {"0", "59", "215", "3600"}

int(x) ==
    CASE x.t = "int" -> IntResult(NoError, NumberOf(x.v))
      [] x.t = "float" ->
            IF x.v = "inf" THEN IntResult(OverflowError, 0)
            ELSE IF x.v = "nan" THEN IntResult("<ValueError>", 0)
            ELSE IntResult(NoError, NumberOf(x.v))
      [] x.t = "str" ->
            IF x.v \in NumericTexts THEN IntResult(NoError, NumberOf(x.v))
            ELSE IntResult("<ValueError>", 0)
      [] OTHER -> IntResult(TypeError, 0)

\* normalize_song, lines 172-176: try int(duration_raw), except (TypeError,
\* ValueError): 0; any other exception leaves the function
duration_sec(s) ==
    LET duration_raw == IF s.duration.t = "absent" THEN PyInt("0") ELSE s.duration
        r == int(duration_raw)
    IN  IF r.err \in {TypeError, "<ValueError>"} THEN IntResult(NoError, 0) ELSE r

\* f"{minutes}:{secs:02d}" of a non-negative integer
_format_duration(total) ==
    ToString(total \div 60) \o ":" \o
    (IF total % 60 < 10 THEN "0" ELSE "") \o ToString(total % 60)

\* a quality label that is a JSON list rather than a string
UnhashableQuality == "<list>"

\* _pick_best_url, line 128: building url_map hashes every quality label
UrlMapRaises(download_urls) ==
    \E i \in 1..Len(download_urls) : download_urls[i].quality = UnhashableQuality

NormResult(raised, f) == [raised |-> raised, song |-> f]

NoFields ==
    [id |-> "", name |-> "", artist |-> "", album |-> "", year |-> "",
     duration |-> 0, duration_formatted |-> "", has_lyrics |-> FALSE,
     image |-> "", download_urls |-> <<>>, best_url |-> ""]

\* normalize_song, all fields but language: the song, or the exception that
\* left the function (in evaluation order: duration, artist, best_url)
normalize_song_fields(s) ==
    LET download_urls == _extract_download_urls(s)
        album_name == IF s.album.t = "dict"
                      THEN (IF s.album.name.t = "absent" THEN PyStr("")
                            ELSE s.album.name)
                      ELSE IF s.album.t = "str" THEN PyStr(s.album.s)
                      ELSE PyStr("")
        dur == duration_sec(s)
        artist == _extract_artist(s)
    IN  IF dur.err # NoError THEN NormResult(dur.err, NoFields)
        ELSE IF artist = TypeError THEN NormResult(TypeError, NoFields)
        ELSE IF UrlMapRaises(download_urls) THEN NormResult(TypeError, NoFields)
        ELSE NormResult(NoError,
                 [id |-> normalize_song(s).id,
                  name |-> normalize_song(s).name,
                  artist |-> artist,
                  album |-> _safe_unescape_value(album_name),
                  year |-> IF s.year.t \in {"absent", "none"} THEN "" ELSE s.year.v,
                  duration |-> dur.n,
                  duration_formatted |-> _format_duration(dur.n),
                  has_lyrics |-> PyTruthy(s.hasLyrics),
                  image |-> _extract_image(s),
                  download_urls |-> download_urls,
                  best_url |-> _pick_best_url(download_urls, DefaultPreferred)])

-----------------------------------------------------------------------------
(* Inputs of normalize_song on whole records *)

ArtistItem(isdict, name) == [isdict |-> isdict, name |-> name]

\* primaryArtists: a missing key, a string, a list or another value
PrimaryArtists(t, s, items) == [t |-> t, s |-> s, items |-> items]
NoPrimaryArtists == PrimaryArtists("absent", "", <<>>)

\* artists: a missing key, a dict with its "primary" member, or another value
ArtistsObj(t, pt, items) == [t |-> t, primary |-> [t |-> pt, items |-> items]]
NoArtistsObj == ArtistsObj("absent", "absent", <<>>)

AlbumObj(t, s, name) == [t |-> t, s |-> s, name |-> name]
NoAlbumObj == AlbumObj("absent", "", PyAbsent)

ImageList(t, items) == [t |-> t, items |-> items]
NoImageList == ImageList("absent", <<>>)

ImageEntry(quality, url, link) ==
    [isdict |-> TRUE, quality |-> quality, url |-> url, link |-> link]

NormBase ==
    [id |-> "s1", name |-> "Song A", downloadUrl |-> JAbsent,
     download_url |-> JAbsent, primaryArtists |-> NoPrimaryArtists,
     artists |-> NoArtistsObj, artist |-> PyAbsent, album |-> NoAlbumObj,
     year |-> PyAbsent, duration |-> PyAbsent, hasLyrics |-> PyAbsent,
     image |-> NoImageList]

ArtistItems ==
    {ArtistItem(TRUE, n) :
        n \in {PyAbsent, PyStr(""), PyStr("A"), PyStr("B"), PyInt("7")}}
    \cup {ArtistItem(FALSE, PyAbsent)}

PrimaryArtistsValues ==
    {NoPrimaryArtists, PrimaryArtists("other", "", <<>>)}
    \cup {PrimaryArtists("str", s, <<>>) : s \in {"", "P", "Tom &amp; Jerry"}}
    \cup {PrimaryArtists("list", "", l) : l \in SeqsUpTo(ArtistItems, MaxArtists)}

ArtistsValues ==
    {NoArtistsObj, ArtistsObj("other", "absent", <<>>),
     ArtistsObj("dict", "absent", <<>>), ArtistsObj("dict", "other", <<>>)}
    \cup {ArtistsObj("dict", "list", l) :
            l \in {<<>>,
                   <<ArtistItem(TRUE, PyStr("A"))>>,
                   <<ArtistItem(TRUE, PyStr("A")), ArtistItem(TRUE, PyStr("B"))>>,
                   <<ArtistItem(TRUE, PyStr(""))>>,
                   <<ArtistItem(TRUE, PyInt("7"))>>,
                   <<ArtistItem(FALSE, PyAbsent)>>}}

FlatArtists == {PyAbsent, PyNone, PyStr(""), PyStr("F"), PyInt("7")}

ArtistInputs ==
    {[NormBase EXCEPT !.primaryArtists = pa, !.artists = ar, !.artist = fl] :
        pa \in PrimaryArtistsValues, ar \in ArtistsValues, fl \in FlatArtists}

ImageItems ==
    {ImageEntry("500x500", "i5", Absent), ImageEntry("150x150", "i1", Absent),
     ImageEntry("500x500", Absent, "l5"), ImageEntry(Absent, "i0", Absent),
     ImageEntry("50x50", "", Absent),
     [isdict |-> FALSE, quality |-> Absent, url |-> Absent, link |-> Absent]}

ImageInputs ==
    {[NormBase EXCEPT !.image = im] :
        im \in {NoImageList, ImageList("other", <<>>)}
               \cup {ImageList("list", l) : l \in SeqsUpTo(ImageItems, MaxImages)}}

Durations ==
    {PyAbsent, PyNone, PyInt("215"), PyInt("59"), PyStr("215"), PyStr("3:35"),
     PyFloat("215.9"), PyFloat("inf"), PyFloat("nan"), PyListVal}

DownloadValues ==
    {JAbsent,
     JList(<<UrlEntry("320kbps", "b")>>),
     JList(<<UrlEntry(UnhashableQuality, "b")>>),
     JList(<<UrlEntry("96kbps", "a"), UrlEntry(UnhashableQuality, "b")>>)}

FieldInputs ==
    {[NormBase EXCEPT !.duration = d, !.year = y, !.hasLyrics = h, !.album = al,
                      !.downloadUrl = dl] :
        d \in Durations,
        y \in {PyAbsent, PyNone, PyInt("2020"), PyStr("2020")},
        h \in {PyAbsent, PyStr("true"), PyStr("")},
        al \in {NoAlbumObj, AlbumObj("str", "Alb", PyAbsent),
                AlbumObj("dict", "", PyStr("Tom &amp; Jerry")),
                AlbumObj("dict", "", PyAbsent), AlbumObj("other", "", PyAbsent)},
        dl \in DownloadValues}

NormInputs == ArtistInputs \cup ImageInputs \cup FieldInputs

NoNormResult == NormResult(NoError, NoFields)

-----------------------------------------------------------------------------
(* platform_resolver.py: texts and the regular expressions *)

\* A text is the sequence of its characters; Text gives the Python string.
Text(chars) == Join(chars, "")

Digits == {"0", "1", "2", "3", "4", "5", "6", "7", "8", "9"}
Lower ==
    {"a", "b", "c", "d", "e", "f", "g", "h", "i", "j", "k", "l", "m", "n", "o", "p", "q", "r", "s", "t", "u", "v", "w", "x", "y", "z"}
Upper ==
    {"A", "B", "C", "D", "E", "F", "G", "H", "I", "J", "K", "L", "M", "N", "O", "P", "Q", "R", "S", "T", "U", "V", "W", "X", "Y", "Z"}

\* [a-zA-Z0-9], \d, \w and [^/]
IsAlnum(c) == c \in Digits \cup Lower \cup Upper
IsDigit(c) == c \in Digits
IsWord(c) == IsAlnum(c) \/ c = "_"
IsNotSlash(c) == c # "/"

\* str.strip(): the text without leading and trailing whitespace
Strip(t) ==
    LET solid == {i \in 1..Len(t) : t[i] # " "}
    IN  IF solid = {} THEN <<>> ELSE SubSeq(t, Min(solid), Max(solid))

\* the literal lit stands at position p of t
LitAt(t, p, lit) ==
    /\ p + Len(lit) - 1 <= Len(t)
    /\ \A k \in 1..Len(lit) : t[p + k - 1] = lit[k]

\* Matching a piece of a pattern from a set P of positions gives the set of
\* positions the match can end before: a literal, X+ over a character
\* class, and (?:X)? written as P \cup the ends of X.
AfterLit(t, P, lit) == {p + Len(lit) : p \in {q \in P : LitAt(t, q, lit)}}

AfterPlus(t, P, InClass(_)) ==
    IF P = {} THEN {}
    ELSE {q \in (Min(P) + 1)..(Len(t) + 1) :
             \E p \in P : p < q /\ \A k \in p..(q - 1) : InClass(t[k])}

\* (?:https?://)?
AfterScheme(t, P) ==
    LET http == AfterLit(t, P, <<"h", "t", "t", "p">>)
    IN  P \cup AfterLit(t, http \cup AfterLit(t, http, <<"s">>), <<":", "/", "/">>)

\* a faulty variant: no intl-<locale> segment is allowed for
SpotifyIdStartsNoIntl(t, s) ==
    AfterLit(t, AfterLit(t, AfterScheme(t, {s}), <<"o", "p", "e", "n", ".", "s", "p", "o", "t", "i", "f", "y", ".", "c", "o", "m", "/">>), <<"t", "r", "a", "c", "k", "/">>)

\* SPOTIFY_PATTERN up to the group: the positions where ([a-zA-Z0-9]+) can
\* begin when the match starts at s
SpotifyIdStarts(t, s) ==
    LET host == AfterLit(t, AfterScheme(t, {s}), <<"o", "p", "e", "n", ".", "s", "p", "o", "t", "i", "f", "y", ".", "c", "o", "m", "/">>)
        intl == AfterLit(t, AfterPlus(t, AfterLit(t, host, <<"i", "n", "t", "l", "-">>), IsWord), <<"/">>)
    IN  AfterLit(t, host \cup intl, <<"t", "r", "a", "c", "k", "/">>)

SpotifyMatches(t, s) == AfterPlus(t, SpotifyIdStarts(t, s), IsAlnum) # {}

\* DEEZER_PATTERN up to the group (\d+)
DeezerIdStarts(t, s) ==
    LET www == AfterScheme(t, {s}) \cup AfterLit(t, AfterScheme(t, {s}), <<"w", "w", "w", ".">>)
        host == AfterLit(t, www, <<"d", "e", "e", "z", "e", "r", ".", "c", "o", "m", "/">>)
        lang == AfterLit(t, AfterPlus(t, host, IsWord), <<"/">>)
    IN  AfterLit(t, host \cup lang, <<"t", "r", "a", "c", "k", "/">>)

DeezerMatches(t, s) == AfterPlus(t, DeezerIdStarts(t, s), IsDigit) # {}

\* APPLE_MUSIC_PATTERN and APPLE_MUSIC_SONG_PATTERN up to group 2: the
\* positions where ([^/]+) can begin; kind is /album/ or /song/
AppleSlugStarts(t, s, kind) ==
    LET host == AfterLit(t, AfterScheme(t, {s}), <<"m", "u", "s", "i", "c", ".", "a", "p", "p", "l", "e", ".", "c", "o", "m", "/">>)
    IN  AfterLit(t, AfterPlus(t, host, IsWord), kind)

\* the positions where ([^/]+) can end so that /(\d+) follows
AppleSlugEnds(t, s, kind) ==
    {e \in AfterPlus(t, AppleSlugStarts(t, s, kind), IsNotSlash) :
        AfterPlus(t, AfterLit(t, {e}, <<"/">>), IsDigit) # {}}

AppleMatches(t, s, kind) == AppleSlugEnds(t, s, kind) # {}

AlbumKind == <<"/", "a", "l", "b", "u", "m", "/">>
SongKind == <<"/", "s", "o", "n", "g", "/">>

\* pattern.search(t): the leftmost position a match starts at, 0 for None
Search(t, Matches(_, _)) ==
    LET starts == {s \in 1..(Len(t) + 1) : Matches(t, s)}
    IN  IF starts = {} THEN 0 ELSE Min(starts)

SpotifySearch(t) == Search(t, SpotifyMatches)
DeezerSearch(t) == Search(t, DeezerMatches)
AppleAlbumSearch(t) == Search(t, LAMBDA u, s : AppleMatches(u, s, AlbumKind))
AppleSongSearch(t) == Search(t, LAMBDA u, s : AppleMatches(u, s, SongKind))

\* match.group(1) of SPOTIFY_PATTERN and DEEZER_PATTERN: the group is
\* greedy, so it runs to the last position its class allows
SpotifyGroup1(t) ==
    LET g == Max({p \in SpotifyIdStarts(t, SpotifySearch(t)) :
                     AfterPlus(t, {p}, IsAlnum) # {}})
    IN  SubSeq(t, g, Max(AfterPlus(t, {g}, IsAlnum)) - 1)

DeezerGroup1(t) ==
    LET g == Max({p \in DeezerIdStarts(t, DeezerSearch(t)) :
                     AfterPlus(t, {p}, IsDigit) # {}})
    IN  SubSeq(t, g, Max(AfterPlus(t, {g}, IsDigit)) - 1)

\* match.group(2) of the two Apple Music patterns
AppleGroup2(t, s, kind) ==
    LET g == Min(AppleSlugStarts(t, s, kind))
    IN  SubSeq(t, g, Min({e \in AppleSlugEnds(t, s, kind) : e > g}) - 1)

\* urllib.parse.quote(url, safe=""): letters, digits and _ . - ~ are kept,
\* every other character becomes %XX
QuoteChar(c) ==
    IF IsAlnum(c) \/ c \in {"_", ".", "-", "~"} THEN <<c>>
    ELSE CASE c = ":" -> <<"%", "3", "A">>
           [] c = "/" -> <<"%", "2", "F">>
           [] c = "?" -> <<"%", "3", "F">>
           [] c = "=" -> <<"%", "3", "D">>
           [] c = " " -> <<"%", "2", "0">>
           [] c = "%" -> <<"%", "2", "5">>

RECURSIVE quote(_)
quote(t) == IF t = <<>> THEN <<>> ELSE QuoteChar(t[1]) \o quote(Tail(t))

\* the characters the %XX escapes of the model's texts stand for
HexPairs ==
    {<<"2", "0">>, <<"2", "D">>, <<"2", "d">>, <<"2", "5">>, <<"2", "F">>,
     <<"3", "A">>, <<"3", "D">>, <<"3", "F">>}

HexChar(pair) ==
    CASE pair = <<"2", "0">> -> " "
      [] pair \in {<<"2", "D">>, <<"2", "d">>} -> "-"
      [] pair = <<"2", "5">> -> "%"
      [] pair = <<"2", "F">> -> "/"
      [] pair = <<"3", "A">> -> ":"
      [] pair = <<"3", "D">> -> "="
      [] pair = <<"3", "F">> -> "?"

RECURSIVE unquote(_)
\* urllib.parse.unquote: every %XX with two hex digits is decoded, a % not
\* followed by two hex digits is kept
unquote(t) ==
    IF t = <<>> THEN <<>>
    ELSE IF t[1] = "%" /\ Len(t) >= 3 /\ <<t[2], t[3]>> \in HexPairs
    THEN <<HexChar(<<t[2], t[3]>>)>> \o unquote(SubSeq(t, 4, Len(t)))
    ELSE <<t[1]>> \o unquote(Tail(t))

\* str.replace("-", " ")
HyphensToSpaces(t) == [i \in 1..Len(t) |-> IF t[i] = "-" THEN " " ELSE t[i]]

-----------------------------------------------------------------------------
(* platform_resolver.py: is_music_url, resolve_url and the resolvers *)

\* a faulty variant: direct song links are not looked for
IsMusicUrlNoSong(text) ==
    LET t == Strip(text)
    IN  \/ SpotifySearch(t) # 0
        \/ DeezerSearch(t) # 0
        \/ AppleAlbumSearch(t) # 0

\* is_music_url, lines 37-45
is_music_url(text) ==
    LET t == Strip(text)
    IN  \/ SpotifySearch(t) # 0
        \/ DeezerSearch(t) # 0
        \/ AppleAlbumSearch(t) # 0
        \/ AppleSongSearch(t) # 0

\* a faulty variant: the Deezer pattern is tried before the Spotify pattern
DispatchDeezerFirst(url) ==
    IF DeezerSearch(url) # 0 THEN "deezer"
    ELSE IF SpotifySearch(url) # 0 THEN "spotify"
    ELSE IF AppleAlbumSearch(url) # 0 THEN "apple_album"
    ELSE IF AppleSongSearch(url) # 0 THEN "apple_song"
    ELSE "none"

\* resolve_url, lines 62-84: the resolver the stripped url is handed to
Dispatch(url) ==
    IF SpotifySearch(url) # 0 THEN "spotify"
    ELSE IF DeezerSearch(url) # 0 THEN "deezer"
    ELSE IF AppleAlbumSearch(url) # 0 THEN "apple_album"
    ELSE IF AppleSongSearch(url) # 0 THEN "apple_song"
    ELSE "none"

\* a GET: the fixed part of its URL and the part the caller's value fills
Request(base, key) == [base |-> base, key |-> key]

\* _resolve_spotify, lines 90-91
oembed_url(url) == Request("https://open.spotify.com/oembed?url=", quote(url))

\* _resolve_deezer, line 119
api_url(track_id) == Request("https://api.deezer.com/track/", track_id)

\* the except clauses of the resolvers take every Exception
ResolverCaught(err) == err \in {"timeout", "exception"}

\* a faulty variant: the status is not looked at
SpotifyResultAnyStatus(reply) ==
    IF reply.err # "none" THEN PyNone
    ELSE IF reply.body.t # "dict" THEN PyNone
    ELSE IF PyTruthy(reply.body.title) THEN reply.body.title
    ELSE PyNone

\* _resolve_spotify, lines 96-111, on the response (a body that is not a
\* mapping makes data.get raise, which the except clause takes)
SpotifyResult(reply) ==
    IF reply.err # "none" \/ reply.status # "200" THEN PyNone
    ELSE IF reply.body.t # "dict" THEN PyNone
    ELSE IF PyTruthy(reply.body.title) THEN reply.body.title
    ELSE PyNone

\* _resolve_deezer, lines 124-143, on the response
DeezerResult(reply) ==
    IF reply.err # "none" \/ reply.status # "200" THEN PyNone
    ELSE IF reply.body.t # "dict" THEN PyNone
    ELSE LET title == IF reply.body.title.t = "absent" THEN PyStr("")
                      ELSE reply.body.title
             artist_obj == reply.body.artist
             artist_name == IF artist_obj.t = "dict" /\ artist_obj.name.t # "absent"
                            THEN artist_obj.name ELSE PyStr("")
         IN  IF PyTruthy(title) /\ PyTruthy(artist_name)
             THEN PyStr(title.v \o " " \o artist_name.v)
             ELSE IF PyTruthy(title) THEN title
             ELSE PyNone

\* a faulty variant: hyphens are replaced before the percent-decoding
SlugToQueryReplaceFirst(slug) ==
    IF slug # <<>> THEN PyStr(Text(unquote(HyphensToSpaces(slug)))) ELSE PyNone

\* _resolve_apple_music_album / _resolve_apple_music_song on group 2
SlugToQuery(slug) ==
    IF slug # <<>> THEN PyStr(Text(HyphensToSpaces(unquote(slug)))) ELSE PyNone

_resolve_apple_music_album(url) ==
    SlugToQuery(AppleGroup2(url, AppleAlbumSearch(url), AlbumKind))

_resolve_apple_music_song(url) ==
    SlugToQuery(AppleGroup2(url, AppleSongSearch(url), SongKind))

-----------------------------------------------------------------------------
(* Inputs of the resolver *)

Schemes == {<<>>, <<"h", "t", "t", "p", ":", "/", "/">>, <<"h", "t", "t", "p", "s", ":", "/", "/">>}
LongTrackId == <<"6", "r", "q", "h", "F", "g", "b", "b", "K", "w", "n", "b", "9", "M", "L", "m", "U", "Q", "D", "h", "G", "6">>
ShortTrackId == <<"a", "b", "c", "1", "2", "3">>
TrackIds == {LongTrackId, ShortTrackId}
Suffixes == {<<>>, <<"?", "s", "i", "=", "x", "_", "1">>}

Locales == {<<>>, <<"i", "n", "t", "l", "-", "d", "e", "/">>, <<"i", "n", "t", "l", "-", "p", "t", "/">>}
TrackPath == <<"t", "r", "a", "c", "k", "/">>
AlbumPath == <<"a", "l", "b", "u", "m", "/">>

SpotifyLink(scheme, locale, kind, id, suffix) ==
    scheme \o <<"o", "p", "e", "n", ".", "s", "p", "o", "t", "i", "f", "y", ".", "c", "o", "m", "/">> \o locale \o kind \o id \o suffix

SpotifyTexts ==
    {SpotifyLink(scheme, locale, kind, id, suffix) :
        scheme \in Schemes, locale \in Locales, kind \in {TrackPath, AlbumPath},
        id \in TrackIds, suffix \in Suffixes}

DeezerTexts ==
    {scheme \o www \o <<"d", "e", "e", "z", "e", "r", ".", "c", "o", "m", "/">> \o lang \o kind \o id :
        scheme \in Schemes, www \in {<<>>, <<"w", "w", "w", ".">>},
        lang \in {<<>>, <<"e", "n", "/">>},
        kind \in {TrackPath, AlbumPath},
        id \in {<<"1", "2", "3", "4", "5", "6", "7", "8">>, <<"x", "1", "2">>}}

SlugPlain == <<"m", "y", "-", "c", "o", "o", "l", "-", "s", "o", "n", "g">>
SlugEncodedBlank == <<"h", "e", "l", "l", "o", "%", "2", "0", "w", "o", "r", "l", "d">>
SlugEncodedHyphen == <<"a", "%", "2", "D", "b", "-", "c">>
SlugStrayPercent == <<"1", "0", "0", "%", "-", "x">>

Slugs == {SlugPlain, SlugEncodedBlank, SlugEncodedHyphen, SlugStrayPercent}

AppleLink(scheme, kind, slug, id, suffix) ==
    scheme \o <<"m", "u", "s", "i", "c", ".", "a", "p", "p", "l", "e", ".", "c", "o", "m", "/">> \o <<"u", "s">> \o kind \o slug \o <<"/">> \o id \o suffix

AppleSchemes == {<<>>, <<"h", "t", "t", "p", "s", ":", "/", "/">>}
AlbumId == <<"1", "2", "3">>
AppleIds == {AlbumId, <<>>}
TrackParams == {<<>>, <<"?", "i", "=", "4", "5", "6">>}

AppleTexts ==
    {AppleLink(scheme, kind, slug, id, suffix) :
        scheme \in AppleSchemes,
        kind \in {AlbumKind, SongKind, <<"/", "a", "r", "t", "i", "s", "t", "/">>},
        slug \in Slugs, id \in AppleIds, suffix \in TrackParams}

OtherTexts ==
    {<<"h", "e", "l", "l", "o", " ", "w", "o", "r", "l", "d">>,
     <<"h", "t", "t", "p", "s", ":", "/", "/", "y", "o", "u", "t", "u", "b", "e", ".", "c", "o", "m", "/", "w", "a", "t", "c", "h", "?", "v", "=", "a", "b", "c">>,
     <<"h", "t", "t", "p", "s", ":", "/", "/", "g", "o", "o", "g", "l", "e", ".", "c", "o", "m">>,
     <<>>}

\* texts that hold two links of different kinds
MultiTexts ==
    {<<"d", "e", "e", "z", "e", "r", ".", "c", "o", "m", "/", "t", "r", "a", "c", "k", "/", "1", "2", "3">> \o <<" ">> \o <<"o", "p", "e", "n", ".", "s", "p", "o", "t", "i", "f", "y", ".", "c", "o", "m", "/", "t", "r", "a", "c", "k", "/", "a", "b", "c">>,
     <<"m", "u", "s", "i", "c", ".", "a", "p", "p", "l", "e", ".", "c", "o", "m", "/", "u", "s", "/", "a", "l", "b", "u", "m", "/", "a", "-", "b", "/", "1">> \o <<" ">> \o <<"d", "e", "e", "z", "e", "r", ".", "c", "o", "m", "/", "t", "r", "a", "c", "k", "/", "1", "2", "3">>,
     <<"m", "u", "s", "i", "c", ".", "a", "p", "p", "l", "e", ".", "c", "o", "m", "/", "u", "s", "/", "s", "o", "n", "g", "/", "c", "-", "d", "/", "2">> \o <<" ">> \o <<"m", "u", "s", "i", "c", ".", "a", "p", "p", "l", "e", ".", "c", "o", "m", "/", "u", "s", "/", "a", "l", "b", "u", "m", "/", "a", "-", "b", "/", "1">>,
     <<"o", "p", "e", "n", ".", "s", "p", "o", "t", "i", "f", "y", ".", "c", "o", "m", "/", "t", "r", "a", "c", "k", "/", "a", "b", "c">> \o <<" ">> \o <<"m", "u", "s", "i", "c", ".", "a", "p", "p", "l", "e", ".", "c", "o", "m", "/", "u", "s", "/", "s", "o", "n", "g", "/", "c", "-", "d", "/", "2">>}

Pad(n) == [i \in 1..n |-> " "]

\* what is_music_url and resolve_url are called with: a link, with up to
\* MaxPad blanks around it
Texts ==
    {Pad(lr[1]) \o core \o Pad(lr[2]) :
        core \in SpotifyTexts \cup DeezerTexts \cup AppleTexts \cup OtherTexts
                 \cup MultiTexts,
        lr \in {p \in (0..MaxPad) \X (0..MaxPad) : p[1] + p[2] <= MaxPad}}

\* a response body: a mapping with its title and artist members, or
\* another JSON value
RBody(t, title, artist) == [t |-> t, title |-> title, artist |-> artist]
RArtist(t, name) == [t |-> t, name |-> name]
NoRBody == RBody("absent", PyAbsent, RArtist("absent", PyAbsent))

ResolverBodies ==
    {RBody("dict", title, artist) :
        title \in {PyAbsent, PyStr(""), PyStr("Cool Song")},
        artist \in {RArtist("absent", PyAbsent), RArtist("other", PyAbsent),
                    RArtist("dict", PyAbsent), RArtist("dict", PyStr("")),
                    RArtist("dict", PyStr("Cool Artist"))}}
    \cup {RBody("other", PyAbsent, RArtist("absent", PyAbsent))}

NoResolverReply == [status |-> Absent, err |-> "none", body |-> NoRBody]

\* what the endpoint can answer: a non-200 status, a timeout, a transport
\* or JSON exception, or a 200 with a body
ResolverReplies ==
    {[status |-> "404", err |-> "none", body |-> NoRBody],
     [status |-> "500", err |-> "none",
      body |-> RBody("dict", PyStr("Cool Song"), RArtist("absent", PyAbsent))],
     [status |-> Absent, err |-> "timeout", body |-> NoRBody],
     [status |-> Absent, err |-> "exception", body |-> NoRBody],
     [status |-> "200", err |-> "exception", body |-> NoRBody]}
    \cup {[status |-> "200", err |-> "none", body |-> b] : b \in ResolverBodies}

\* an argument of a direct call: a string or the session
StrArg(chars) == [session |-> FALSE, chars |-> chars]
SessionArg == [session |-> TRUE, chars |-> <<>>]

DirectIds == {<<"1", "2", "3">>, <<"3", "1", "3", "5", "5", "5", "6">>, <<"1", "2", "3", "4", "5", "6", "7", "8">>}

\* the positional arguments _resolve_deezer is called with: by resolve_url
\* (line 72), and with the track id and the session alone
DeezerArgLists ==
    {<<StrArg(<<"h", "t", "t", "p", "s", ":", "/", "/", "d", "e", "e", "z", "e", "r", ".", "c", "o", "m", "/", "t", "r", "a", "c", "k", "/">> \o id), StrArg(id), SessionArg>> : id \in DirectIds}
    \cup {<<StrArg(id), SessionArg>> : id \in DirectIds}

-----------------------------------------------------------------------------
(* ytdlp_provider.py: search_youtube / search_soundcloud *)

AttributeError == "<AttributeError>"

\* an element of the list extract_info delivers: a mapping (shape "dict": the
\* Info record, with the values of its duration and requested_formats keys
\* held beside it), an empty mapping, None, or a text
YtEntry(shape, duration, formats, info) ==
    [shape |-> shape, duration |-> duration, formats |-> formats, info |-> info]

NoneEntry == YtEntry("none", PyAbsent, "list", NoneInfo)
EmptyEntry == YtEntry("empty", PyAbsent, "list", NoneInfo)
StrEntry == YtEntry("str", PyAbsent, "list", NoneInfo)

\* bool(e) in `[e for e in entries if e]`
EntryTruthy(e) == e.shape \notin {"none", "empty"}

YtNormalized(raised, s) == [raised |-> raised, song |-> s]

\* normalize_ytdlp_result on an element as delivered: info.get needs a
\* mapping (line 85), int(info.get("duration") or 0) is not guarded (line 93)
\* and _extract_audio_url iterates info.get("requested_formats", []) (line 68)
normalize_ytdlp_entry(e, source) ==
    LET duration == int(IF PyTruthy(e.duration) THEN e.duration ELSE PyInt("0"))
    IN  IF e.shape # "dict" THEN YtNormalized(AttributeError, NoSong)
        ELSE IF duration.err # NoError THEN YtNormalized(duration.err, NoSong)
        ELSE IF e.formats = "none" THEN YtNormalized(TypeError, NoSong)
        ELSE YtNormalized(NoError, normalize_ytdlp_result(e.info, source))

\* what the worker's import and extract_info call did
Extraction(kind, result) == [kind |-> kind, result |-> result]

EntriesAbsent == [t |-> "absent", items |-> <<>>]
EntriesNone == [t |-> "none", items |-> <<>>]
EntriesList(items) == [t |-> "list", items |-> items]

\* the value of extract_info: None, or a mapping with its entries key and its
\* own fields (self: the mapping read as one info record)
YtResult(entries, self) == [none |-> FALSE, entries |-> entries, self |-> self]
NoneYtResult == [none |-> TRUE, entries |-> EntriesAbsent, self |-> NoneEntry]

NoExtraction == Extraction("none", NoneYtResult)

\* _ytdlp_search_sync, lines 144-172
_ytdlp_search_sync(x) ==
    IF x.kind = "import_error" THEN <<>>
    ELSE IF x.kind = "raises" THEN <<>>
    ELSE IF x.result.none THEN <<>>
    ELSE LET entries == IF x.result.entries.t = "list"
                        THEN x.result.entries.items ELSE <<>>
             single == entries = <<>> /\ x.result.self.shape = "dict"
                       /\ HasText(x.result.self.info.id)
         IN  SelectSeq(IF single THEN <<x.result.self>> ELSE entries, EntryTruthy)

YtSearchResult(raised, songs) == [raised |-> raised, songs |-> songs]
NoYtResult == YtSearchResult("unset", <<>>)

RECURSIVE NormalizeAll(_, _)
\* [normalize_ytdlp_result(r, source=...) for r in raw], lines 203 and 213:
\* the first element whose normalisation raises ends the comprehension
NormalizeAll(raw, source) ==
    IF raw = <<>> THEN YtSearchResult(NoError, <<>>)
    ELSE LET first == normalize_ytdlp_entry(Head(raw), source)
             rest == NormalizeAll(Tail(raw), source)
         IN  IF first.raised # NoError THEN YtSearchResult(first.raised, <<>>)
             ELSE IF rest.raised # NoError THEN rest
             ELSE YtSearchResult(NoError, <<first.song>> \o rest.songs)

YtVideo == Info("v1", "y1", <<>>, 0, "https://youtu.be/v1")
YtTrack ==
    Info("v1", Absent, <<Format("opus", "none", "y2")>>, 128,
         "https://soundcloud.com/t1")
YtPage == Info(Absent, Absent, <<>>, 0, Absent)

YtDurations == {PyNone, PyFloat("215.9"), PyStr("3:35")}

YtEntries ==
    {YtEntry("dict", d, "list", i) : d \in YtDurations, i \in {YtVideo, YtTrack}}
    \cup {YtEntry("dict", PyNone, "none", YtVideo), NoneEntry, EmptyEntry, StrEntry}

\* the fields of a result mapping itself: a search page (no id), one record
YtSelves ==
    {YtEntry("dict", PyNone, "list", YtPage),
     YtEntry("dict", PyFloat("215.9"), "list", YtVideo),
     YtEntry("dict", PyStr("3:35"), "list", YtTrack)}

YtResults ==
    {YtResult(EntriesList(s), YtEntry("dict", PyNone, "list", YtPage)) :
        s \in SeqsUpTo(YtEntries, MaxEntries)}
    \cup {YtResult(e, self) :
            e \in {EntriesAbsent, EntriesNone, EntriesList(<<>>)}, self \in YtSelves}

Extractions ==
    {Extraction("import_error", NoneYtResult), Extraction("raises", NoneYtResult),
     Extraction("returns", NoneYtResult)}
    \cup {Extraction("returns", r) : r \in YtResults}

-----------------------------------------------------------------------------
(* lyrics.py: LyricsFetcher._search_lrclib *)

\* a text value of an LRCLIB entry or of a lyrics result: absent, None, or a
\* string held as its characters
LyricsVal(t, chars) == [t |-> t, chars |-> chars]
NoLyricsText == LyricsVal("none", <<>>)
LyricsText(chars) == LyricsVal("str", chars)

\* an element of the response list (dict FALSE: not a mapping)
LrcEntry(trackName, instrumental, plainLyrics) ==
    [dict |-> TRUE, trackName |-> trackName, instrumental |-> instrumental,
     plainLyrics |-> plainLyrics]
NonDictLrcEntry ==
    [dict |-> FALSE, trackName |-> "", instrumental |-> "absent",
     plainLyrics |-> NoLyricsText]

\* the lyrics result dict (none TRUE: the function returned None)
LrcResult(track, lyrics, instrumental) ==
    [none |-> FALSE, track |-> track, lyrics |-> lyrics,
     instrumental |-> instrumental, source |-> "LRCLIB"]
NoLyrics ==
    [none |-> TRUE, track |-> "", lyrics |-> NoLyricsText, instrumental |-> FALSE,
     source |-> ""]

\* line 60: entry.get("instrumental")
IsInstrumental(entry) == entry.instrumental = "true"

\* line 76: plain and plain.strip()
NonBlank(plain) == plain.t = "str" /\ plain.chars # <<>> /\ Strip(plain.chars) # <<>>

RECURSIVE ScanFirstEntry(_, _)
\* a faulty variant: the first instrumental entry ends the scan
ScanFirstEntry(data, instrumental_fallback) ==
    IF data = <<>> THEN instrumental_fallback
    ELSE LET entry == Head(data)
         IN  IF ~entry.dict THEN ScanFirstEntry(Tail(data), instrumental_fallback)
             ELSE IF IsInstrumental(entry)
             THEN LrcResult(entry.trackName, NoLyricsText, TRUE)
             ELSE IF NonBlank(entry.plainLyrics)
             THEN LrcResult(entry.trackName,
                            LyricsText(Strip(entry.plainLyrics.chars)), FALSE)
             ELSE ScanFirstEntry(Tail(data), instrumental_fallback)

RECURSIVE ScanEntries(_, _)
\* the loop of lines 56-90 over the rest of the list, instrumental_fallback
\* being NoLyrics while it is None
ScanEntries(data, instrumental_fallback) ==
    IF data = <<>> THEN instrumental_fallback
    ELSE LET entry == Head(data)
         IN  IF ~entry.dict THEN ScanEntries(Tail(data), instrumental_fallback)
             ELSE IF IsInstrumental(entry)
             THEN ScanEntries(Tail(data),
                              IF instrumental_fallback = NoLyrics
                              THEN LrcResult(entry.trackName, NoLyricsText, TRUE)
                              ELSE instrumental_fallback)
             ELSE IF NonBlank(entry.plainLyrics)
             THEN LrcResult(entry.trackName,
                            LyricsText(Strip(entry.plainLyrics.chars)), FALSE)
             ELSE ScanEntries(Tail(data), instrumental_fallback)

\* the JSON body of the response: a list, or another value
LrcBody(t, items) == [t |-> t, items |-> items]
NoLrcBody == LrcBody("none", <<>>)

\* _search_lrclib once the response is there, lines 43-97
LrclibResult(reply) ==
    IF reply.err # "none" THEN NoLyrics
    ELSE IF reply.status # "200" THEN NoLyrics
    ELSE IF reply.body.t # "list" THEN NoLyrics
    ELSE ScanEntries(reply.body.items, NoLyrics)

LyricsTexts ==
    {<<>>, <<" ", " ", " ">>, <<"l", "a">>, <<" ", "h", "o", " ">>}

LrcEntries ==
    {LrcEntry("A", "false", p) :
        p \in {NoLyricsText} \cup {LyricsText(c) : c \in LyricsTexts}}
    \cup {LrcEntry("B", "absent", p) :
            p \in {LyricsVal("absent", <<>>), LyricsText(<<"l", "a">>)}}
    \cup {LrcEntry(n, "true", NoLyricsText) : n \in {"I1", "I2"}}
    \cup {LrcEntry("I1", "true", LyricsText(<<"l", "a">>)), NonDictLrcEntry}

NoLrclibReply == [status |-> Absent, err |-> "none", body |-> NoLrcBody]

LrclibReplies ==
    {[status |-> "404", err |-> "none", body |-> NoLrcBody],
     [status |-> "500", err |-> "none",
      body |-> LrcBody("list", <<LrcEntry("A", "false", LyricsText(<<"l", "a">>))>>)],
     [status |-> Absent, err |-> "timeout", body |-> NoLrcBody],
     [status |-> Absent, err |-> "exception", body |-> NoLrcBody],
     [status |-> "200", err |-> "exception", body |-> NoLrcBody],
     [status |-> "200", err |-> "none", body |-> LrcBody("dict", <<>>)],
     [status |-> "200", err |-> "none", body |-> NoLrcBody]}
    \cup {[status |-> "200", err |-> "none", body |-> LrcBody("list", d)] :
            d \in SeqsUpTo(LrcEntries, MaxLyricsEntries)}


-----------------------------------------------------------------------------
(* lyrics.py: LyricsFetcher._search_lyrics_ovh and LyricsFetcher.search *)

LRCLIB_SEARCH == <<"h", "t", "t", "p", "s", ":", "/", "/", "l", "r", "c", "l", "i", "b", ".", "n", "e", "t", "/", "a", "p", "i", "/", "s", "e", "a", "r", "c", "h">>
LYRICS_OVH_BASE == <<"h", "t", "t", "p", "s", ":", "/", "/", "a", "p", "i", ".", "l", "y", "r", "i", "c", "s", ".", "o", "v", "h", "/", "v", "1">>

\* line 112: f"{LYRICS_OVH_BASE}/{artist}/{title}"
ovh_url(artist, title) == LYRICS_OVH_BASE \o <<"/">> \o artist \o <<"/">> \o title

\* a GET as the session sees it: its URL, the q parameter (LRCLIB) and the
\* artist and title it was built from (lyrics.ovh)
LrclibRequest(query) ==
    [provider |-> "lrclib", url |-> LRCLIB_SEARCH, q |-> query, artist |-> <<>>,
     title |-> <<>>]
OvhRequest(artist, title) ==
    [provider |-> "ovh", url |-> ovh_url(artist, title), q |-> <<>>,
     artist |-> artist, title |-> title]

\* the JSON body of a lyrics.ovh response: a mapping with its lyrics key, or
\* another value
OvhBody(t, lyrics) == [t |-> t, lyrics |-> lyrics]
NoOvhBody == OvhBody("none", NoLyricsText)

\* what search hands back: the provider, the lyrics and the instrumental
\* flag of the result dict (none TRUE: None)
Found(source, lyrics, instrumental) ==
    [none |-> FALSE, source |-> source, lyrics |-> lyrics,
     instrumental |-> instrumental]
NoFound ==
    [none |-> TRUE, source |-> "", lyrics |-> NoLyricsText, instrumental |-> FALSE]

\* _search_lrclib once the response is there, as search sees its result
LrclibFound(reply) ==
    LET r == LrclibResult(reply)
    IN  IF r.none THEN NoFound ELSE Found(r.source, r.lyrics, r.instrumental)

\* _search_lyrics_ovh once the response is there, lines 117-139:
\* data.get("lyrics", "").strip() raises for a None value and is caught
OvhFound(reply) ==
    IF reply.err # "none" THEN NoFound
    ELSE IF reply.status # "200" THEN NoFound
    ELSE IF reply.ovh.t # "dict" THEN NoFound
    ELSE IF reply.ovh.lyrics.t = "none" THEN NoFound
    ELSE LET lyrics_text == IF reply.ovh.lyrics.t = "absent" THEN <<>>
                            ELSE Strip(reply.ovh.lyrics.chars)
         IN  IF lyrics_text # <<>>
             THEN Found("lyrics.ovh", LyricsText(lyrics_text), FALSE)
             ELSE NoFound

\* line 107: not artist or not title
OvhSkips(artist, title) == artist = <<>> \/ title = <<>>

Dash == <<" ", "-", " ">>

\* " - " in query
HasDash(query) == \E p \in 1..Len(query) : LitAt(query, p, Dash)

\* query.split(" - ", 1), both parts stripped (line 182)
SplitAtDash(query) ==
    LET p == Min({q \in 1..Len(query) : LitAt(query, q, Dash)})
    IN  [artist |-> Strip(SubSeq(query, 1, p - 1)),
         title |-> Strip(SubSeq(query, p + 3, Len(query)))]

\* a faulty variant: the explicit artist and title are tried whatever they are
ExplicitStepAlways(artist, title) == TRUE

\* line 174: artist and title
ExplicitStep(artist, title) == artist # <<>> /\ title # <<>>

\* the provider call search makes after the call named step gave nothing
\* (lines 173-186); "none": it returns None
StepAfter(step, query, artist, title) ==
    IF step = "lrclib" /\ ExplicitStep(artist, title) THEN "explicit"
    ELSE IF step \in {"lrclib", "explicit"} /\ HasDash(query) THEN "split"
    ELSE "none"

\* the artist and title the provider call named step is made with
StepArgs(step, query, artist, title) ==
    IF step = "split" THEN SplitAtDash(query)
    ELSE [artist |-> artist, title |-> title]

FetchReply(status, err, body, ovh) ==
    [status |-> status, err |-> err, body |-> body, ovh |-> ovh]
NoFetchReply == FetchReply(Absent, "none", NoLrcBody, NoOvhBody)

LrclibAnswers ==
    {FetchReply("404", "none", NoLrcBody, NoOvhBody),
     FetchReply(Absent, "timeout", NoLrcBody, NoOvhBody),
     FetchReply("200", "none", LrcBody("list", <<>>), NoOvhBody),
     FetchReply("200", "none",
                LrcBody("list", <<LrcEntry("A", "false", LyricsText(<<"l", "a">>))>>),
                NoOvhBody),
     FetchReply("200", "none",
                LrcBody("list", <<LrcEntry("I1", "true", NoLyricsText)>>), NoOvhBody)}

OvhAnswers ==
    {FetchReply("404", "none", NoLrcBody, NoOvhBody),
     FetchReply(Absent, "exception", NoLrcBody, NoOvhBody),
     FetchReply("200", "none", NoLrcBody, OvhBody("list", NoLyricsText)),
     FetchReply("200", "none", NoLrcBody, OvhBody("dict", NoLyricsText)),
     FetchReply("200", "none", NoLrcBody, OvhBody("dict", LyricsText(<<>>))),
     FetchReply("200", "none", NoLrcBody,
                OvhBody("dict", LyricsText(<<" ", "h", "i", " ">>)))}

Queries ==
    {<<"q">>,
     <<"A", " ", "-", " ", "B">>,
     <<" ", "-", " ", "B">>,
     <<"A", " ", "-", " ", "B", " ", "-", " ", "C">>,
     <<"A", " ", "-", " ", " ">>}
QueryArtists == {<<>>, <<"A", "C", "/", "D", "C">>, <<"X">>}
QueryTitles == {<<>>, <<"B", "a", "c", "k", " ", "I", "n", " ", "B", "l", "a", "c", "k">>, <<"Y">>}


-----------------------------------------------------------------------------
(* Inputs of get_song_by_id called on its own *)

\* bodies that mix the envelope shapes: a top-level id beside a data mapping
\* that holds nothing usable, an empty results list beside a data list, a
\* results value that is neither a list nor a mapping
MixedBodies ==
    {Body("dict", r, Inner("dict", <<>>, NoRaw, NoLeaf, NoLeaf)) : r \in FewRecords}
    \cup {Body("dict", NoRaw,
               Inner("dict", <<>>, NoRaw, Leaf("list", <<>>, NoRaw),
                     Leaf("list", <<DictItem(r)>>, NoRaw))) : r \in FewRecords}
    \cup {Body("dict", NoRaw,
               Inner("dict", <<>>, NoRaw, Leaf("other", <<>>, NoRaw),
                     Leaf("list", <<DictItem(r)>>, NoRaw))) : r \in FewRecords}

GetReplies ==
    SongReplies \cup {[status |-> "200", err |-> "none", body |-> b] : b \in MixedBodies}


-----------------------------------------------------------------------------
(* Inputs of _extract_audio_url called on its own *)

\* requested format entries: the audio codec missing, "none" or set, the
\* video codec missing, "none" or set
AudioFormats ==
    {Format(acodec, vcodec, url) :
        acodec \in {Absent, "none", "opus"}, vcodec \in {Absent, "none", "vp9"},
        url \in {"f1"}}
    \cup {Format("opus", "none", Absent), Format("mp4a", Absent, "f2"),
          Format(Absent, "none", "f3")}

AudioInfos ==
    {Info("v1", url, fmts, 0, Absent) :
        url \in {Absent, "y1"}, fmts \in SeqsUpTo(AudioFormats, MaxFormats)}


-----------------------------------------------------------------------------
(* Inputs of _get_url_for_quality *)

\* normalized entries: tiers and a quality outside the tiers
UrlEntries ==
    {[quality |-> q, url |-> u] :
        q \in {"48kbps", "96kbps", "320kbps", "128kbps"}, u \in {"a", "b"}}


-----------------------------------------------------------------------------
(* web_search.py: WebSearcher's cache *)

UpperLetters ==
    <<"A", "B", "C", "D", "E", "F", "G", "H", "I", "J", "K", "L", "M", "N", "O", "P", "Q", "R", "S", "T", "U", "V", "W", "X", "Y", "Z">>
LowerLetters ==
    <<"a", "b", "c", "d", "e", "f", "g", "h", "i", "j", "k", "l", "m", "n", "o", "p", "q", "r", "s", "t", "u", "v", "w", "x", "y", "z">>

\* str.lower() on the letters of the model
str_lower(t) ==
    [i \in 1..Len(t) |->
        IF t[i] \in Upper
        THEN LowerLetters[CHOOSE k \in 1..26 : UpperLetters[k] = t[i]]
        ELSE t[i]]

\* SearchResponse(query, results, search_type, cached, error)
SearchResponse(query, results, search_type, cached, error) ==
    [query |-> query, results |-> results, search_type |-> search_type,
     cached |-> cached, error |-> error]

NoResponse == SearchResponse(<<>>, <<>>, "none", FALSE, "unset")

\* error = None
NoErrorText == "None"

EmptyCache == <<>>

\* a faulty variant: the query is used as typed
CacheKeyVerbatim(query, search_type) == [search_type |-> search_type, text |-> query]

\* f"{search_type}:{query.lower().strip()}"
_cache_key(query, search_type) ==
    [search_type |-> search_type, text |-> Strip(str_lower(query))]

\* del self._cache[key]
Without(cache, key) == [k \in (DOMAIN cache) \ {key} |-> cache[k]]

\* _get_cached, lines 66-67: key in self._cache, and time.time() - ts <
\* WEB_SEARCH_CACHE_TTL
CacheHit(cache, key, now) ==
    /\ key \in DOMAIN cache
    /\ now - cache[key].ts < CacheTtl

\* _get_cached, the cache it leaves: the response is marked cached on a hit,
\* an expired entry is deleted
_get_cached(cache, key, now) ==
    IF CacheHit(cache, key, now)
    THEN [cache EXCEPT ![key].response.cached = TRUE]
    ELSE Without(cache, key)

\* _set_cached: with more than the threshold of entries, those older than
\* the TTL are deleted; then the response is stored under key with the time
_set_cached(cache, key, response, now) ==
    LET kept == IF Cardinality(DOMAIN cache) > EvictAbove
                THEN {k \in DOMAIN cache : ~(now - cache[k].ts > CacheTtl)}
                ELSE DOMAIN cache
    IN  [k \in kept \cup {key} |->
            IF k = key THEN [ts |-> now, response |-> response] ELSE cache[k]]

\* queries: the same text in another case and with blanks around
WebQueries == {<<"A", "b">>, <<" ", "a", "b", " ">>}

\* what awaiting the upstream search gives: a list of results, the timeout
\* of asyncio.wait_for, or an exception
UpstreamOutcomes ==
    {[kind |-> "results", results |-> r] : r \in {<<>>, <<"r1">>}}
    \cup {[kind |-> "timeout", results |-> <<>>], [kind |-> "raises", results |-> <<>>]}

-----------------------------------------------------------------------------
(* The harnesses at rest *)

PickIdle ==
    /\ pphase = "off"
    /\ praw = [id |-> Absent, name |-> Absent, downloadUrl |-> JAbsent,
               download_url |-> JAbsent]
    /\ psong = NoSong
    /\ ppref = Absent
    /\ pout = Absent

SongIdle ==
    /\ song = NoSong
    /\ epc = "off" /\ emirror = 0 /\ egets = 0 /\ ereply = NoReply
    /\ eoutcome = "none"
    /\ rpc = "off" /\ rinfo = NoneInfo /\ rextracts = 0 /\ routcome = "none"

SearchIdle ==
    /\ spc = "off" /\ smirror = 0 /\ scontacted = <<>> /\ sreply = NoSearchReply
    /\ sreplies = <<>> /\ sresult = JAbsent

NormIdle ==
    /\ nphase = "off" /\ nraw = NormBase /\ nout = NoNormResult

ResolveIdle ==
    /\ utext = <<>> /\ umusic = "unset" /\ umatch = PyAbsent /\ uargs = <<>>
    /\ ucall = "none" /\ upc = "off"
    /\ uvia = "none" /\ ureqs = <<>> /\ ureply = NoResolverReply
    /\ uresult = PyAbsent

YtIdle ==
    /\ ypc = "off" /\ ysource = "none" /\ yextract = NoExtraction
    /\ yraw = <<>> /\ yresult = NoYtResult

LyricsIdle ==
    /\ lpc = "off" /\ lreqs = 0 /\ lreply = NoLrclibReply /\ lresult = NoLyrics

FetchIdle ==
    /\ fcall = "none" /\ fpc = "off" /\ fquery = <<>> /\ fartist = <<>>
    /\ ftitle = <<>> /\ fstep = "none" /\ freqs = <<>> /\ fouts = <<>>
    /\ freply = NoFetchReply /\ fresult = NoFound

GetIdle ==
    /\ gpc = "off" /\ gmirror = 0 /\ gcontacted = <<>> /\ greply = NoReply
    /\ gresult = NoSong

AudioIdle ==
    /\ aphase = "off" /\ ainfo = NoneInfo /\ aurl = Absent

QualityIdle ==
    /\ qphase = "off" /\ qlist = <<>> /\ qquality = Absent
    /\ qout = Absent /\ qbest = Absent

LoopIdle ==
    /\ kcall = "none" /\ kpc = "off" /\ kjob = "none" /\ kthread = "none"
    /\ kurl = Absent /\ kextract = NoExtraction /\ kinfo = NoneInfo
    /\ kresult = NoYtResult /\ ksong = NoSong /\ kother = 0 /\ kduring = 0

WebIdle ==
    /\ wpc = "off" /\ wtype = "none" /\ wquery = <<>> /\ wcache = EmptyCache
    /\ wnow = 0 /\ wbefore = EmptyCache /\ wupstream = 0 /\ wresp = NoResponse

\* every harness but h is at rest
IdleBut(h) ==
    /\ IF h = "pick" THEN TRUE ELSE PickIdle
    /\ IF h = "song" THEN TRUE ELSE SongIdle
    /\ IF h = "search" THEN TRUE ELSE SearchIdle
    /\ IF h = "norm" THEN TRUE ELSE NormIdle
    /\ IF h = "resolve" THEN TRUE ELSE ResolveIdle
    /\ IF h = "yt" THEN TRUE ELSE YtIdle
    /\ IF h = "lyrics" THEN TRUE ELSE LyricsIdle
    /\ IF h = "fetch" THEN TRUE ELSE FetchIdle
    /\ IF h = "get" THEN TRUE ELSE GetIdle
    /\ IF h = "audio" THEN TRUE ELSE AudioIdle
    /\ IF h = "quality" THEN TRUE ELSE QualityIdle
    /\ IF h = "loop" THEN TRUE ELSE LoopIdle
    /\ IF h = "web" THEN TRUE ELSE WebIdle

-----------------------------------------------------------------------------
(* The pure-function harness: normalize_song, then _pick_best_url *)

PickInit ==
    /\ pphase = "raw"
    /\ praw \in RawSongsOf(SeqsUpTo(RawEntries, MaxRawLen))
    /\ psong = NoSong
    /\ ppref = Absent
    /\ pout = Absent
    /\ IdleBut("pick")

NormalizeSong ==
    /\ pphase = "raw"
    /\ psong' = normalize_song(praw)
    /\ pphase' = "normalized"
    /\ UNCHANGED <<praw, ppref, pout, notPick>>

PickBestUrl ==
    /\ pphase = "normalized"
    /\ \E preferred \in Preferences :
          /\ ppref' = preferred
          /\ pout' = _pick_best_url(psong.download_urls, preferred)
    /\ pphase' = "picked"
    /\ UNCHANGED <<praw, psong, notPick>>

PickNext == NormalizeSong \/ PickBestUrl

SpecPick == PickInit /\ [][PickNext]_vars

-----------------------------------------------------------------------------
(* Properties of the quality selector and of download-url extraction *)

KnownTiers == Range(QUALITY_TIERS)

LabelsOf(dl) == {dl[i].quality : i \in 1..Len(dl)}

\* the known tiers a list holds entries of
TiersOf(dl) == LabelsOf(dl) \cap KnownTiers

\* q is at or below p: the same label, or two known tiers in tier order
AtOrBelow(q, p) ==
    q = p \/ (q \in KnownTiers /\ p \in KnownTiers /\ TierIndex(q) <= TierIndex(p))

HighestTier(dl) ==
    CHOOSE t \in TiersOf(dl) : \A u \in TiersOf(dl) : TierIndex(u) <= TierIndex(t)

IsUrlOf(u, dl, S) == \E i \in 1..Len(dl) : dl[i].quality \in S /\ dl[i].url = u

\* C2 as stated: _pick_best_url returns the URL of an entry at or below the
\* requested quality whenever the list holds one, and otherwise the URL of
\* the highest tier present in the list.
C2_NeverHigherElseHighestTier ==
    (pphase = "picked" /\ psong.download_urls # <<>>) =>
        LET dl == psong.download_urls
            below == {q \in LabelsOf(dl) : AtOrBelow(q, ppref)}
        IN  IF below # {} THEN IsUrlOf(pout, dl, below)
            ELSE /\ TiersOf(dl) # {}
                 /\ IsUrlOf(pout, dl, {HighestTier(dl)})

\* C2 amended: as C2, and when the list holds no entry at or below the
\* requested quality and no known tier at all, the URL of the last list
\* element is returned.
C2_NeverHigherElseHighestElseLast ==
    (pphase = "picked" /\ psong.download_urls # <<>>) =>
        LET dl == psong.download_urls
            below == {q \in LabelsOf(dl) : AtOrBelow(q, ppref)}
        IN  IF below # {} THEN IsUrlOf(pout, dl, below)
            ELSE IF TiersOf(dl) # {} THEN IsUrlOf(pout, dl, {HighestTier(dl)})
            ELSE pout = dl[Len(dl)].url

\* a list holding only a higher tier than requested: the highest is served
C2_Witness ==
    /\ pphase = "picked" /\ ppref = "48kbps"
    /\ LabelsOf(psong.download_urls) = {"96kbps", "320kbps", "128kbps"}
    /\ pout = "b"
    /\ IsUrlOf("b", psong.download_urls, {"320kbps"})
    /\ ~IsUrlOf("b", psong.download_urls, {"96kbps", "128kbps"})

\* The three-level reference selection, stated over sets of labels.
UrlOfLabel(dl, q) == dl[Max({i \in 1..Len(dl) : dl[i].quality = q})].url

ChainOf(preferred) ==
    {preferred} \cup
    (IF preferred \in KnownTiers
     THEN {t \in KnownTiers : TierIndex(t) < TierIndex(preferred)} ELSE {})

HighestOf(S) == CHOOSE t \in S : \A u \in S : TierIndex(u) <= TierIndex(t)

ReferencePick(dl, preferred) ==
    LET chain == ChainOf(preferred) \cap LabelsOf(dl)
    IN  IF Len(dl) = 0 THEN ""
        ELSE IF preferred \in chain THEN UrlOfLabel(dl, preferred)
        ELSE IF chain # {} THEN UrlOfLabel(dl, HighestOf(chain))
        ELSE IF TiersOf(dl) # {} THEN UrlOfLabel(dl, HighestOf(TiersOf(dl)))
        ELSE dl[Len(dl)].url

ScenarioList ==
    << [isdict |-> TRUE, quality |-> "96kbps", url |-> "a", link |-> Absent],
       [isdict |-> TRUE, quality |-> "320kbps", url |-> "b", link |-> Absent] >>

\* C3: _pick_best_url equals the three-level reference selection for every
\* list and preference, and the record with 96kbps->a, 320kbps->b normalises
\* to best_url = b.
C3_PickEqualsReference ==
    /\ pphase = "picked" => pout = ReferencePick(psong.download_urls, ppref)
    /\ (pphase # "raw" /\ praw.downloadUrl = JList(ScenarioList)) =>
           psong.best_url = "b"

C3_Witness ==
    /\ pphase = "picked"
    /\ praw.downloadUrl = JList(ScenarioList)
    /\ ppref = DefaultPreferred
    /\ pout = "b"

\* the upstream list normalize_song reads, and its usable entries
UpstreamList(s) ==
    IF s.downloadUrl.t = "list" /\ s.downloadUrl.v # <<>> THEN s.downloadUrl.v
    ELSE IF s.downloadUrl.t = "absent" \/ s.downloadUrl.t = "list"
         THEN (IF s.download_url.t = "list" THEN s.download_url.v ELSE <<>>)
    ELSE <<>>

Usable(e) == e.isdict /\ HasText(e.quality) /\ (HasText(e.url) \/ HasText(e.link))

\* the k-th smallest element of a set of naturals
Kth(S, k) == CHOOSE x \in S : Cardinality({y \in S : y <= x}) = k

\* C4 as stated: download_urls holds at most one entry per quality label.
C4_OneEntryPerQuality ==
    pphase # "raw" =>
        \A i, j \in 1..Len(psong.download_urls) :
            i # j => psong.download_urls[i].quality # psong.download_urls[j].quality

\* C4 amended: download_urls holds one entry for every usable upstream entry
\* (a mapping with a non-empty quality and a non-empty url or link), in
\* upstream order, entries repeating a quality label included.
C4_OneEntryPerUsableUpstreamEntry ==
    pphase # "raw" =>
        LET up == UpstreamList(praw)
            ok == {i \in 1..Len(up) : Usable(up[i])}
            dl == psong.download_urls
        IN  /\ Len(dl) = Cardinality(ok)
            /\ \A k \in 1..Len(dl) :
                  /\ dl[k].quality = up[Kth(ok, k)].quality
                  /\ dl[k].url = IF HasText(up[Kth(ok, k)].url)
                                 THEN up[Kth(ok, k)].url ELSE up[Kth(ok, k)].link

\* two usable upstream entries of one quality are both kept
C4_Witness ==
    /\ pphase = "normalized"
    /\ Len(psong.download_urls) = 2
    /\ psong.download_urls[1].quality = "320kbps"
    /\ psong.download_urls[2].quality = "320kbps"
    /\ psong.download_urls[1].url # psong.download_urls[2].url

-----------------------------------------------------------------------------
(* The song life cycle: ensure_download_urls and refresh_song, called one   *)
(* after the other on one song                                              *)

SongInit ==
    /\ song \in InitialSongs
    /\ epc = "idle" /\ emirror = 0 /\ egets = 0 /\ ereply = NoReply
    /\ eoutcome = "none"
    /\ rpc = "idle" /\ rinfo = NoneInfo /\ rextracts = 0 /\ routcome = "none"
    /\ IdleBut("song")

rvars == <<rpc, rinfo, rextracts, routcome>>
ensvars == <<epc, emirror, egets, ereply, eoutcome>>

\* ensure_download_urls up to its first await: lines 319-327, and the first
\* GET of get_song_by_id
EnsureCall ==
    /\ epc = "idle"
    /\ ereply' = NoReply
    /\ IF AlreadyComplete(song)
       THEN epc' = "ret" /\ eoutcome' = "complete" /\ emirror' = 0 /\ egets' = 0
       ELSE IF ~HasText(song.id)
       THEN epc' = "ret" /\ eoutcome' = "noid" /\ emirror' = 0 /\ egets' = 0
       ELSE epc' = "await" /\ eoutcome' = "pending" /\ emirror' = 1 /\ egets' = 1
    /\ UNCHANGED <<song, rvars, notSong>>

\* the mirror's response (or the failure of the request) arrives
EnsureMirrorReply ==
    /\ epc = "await"
    /\ \E reply \in SongReplies : ereply' = reply
    /\ epc' = "resume"
    /\ UNCHANGED <<song, emirror, egets, eoutcome, rvars, notSong>>

\* get_song_by_id resumes on the response: it returns the normalised song
\* (and ensure_download_urls runs lines 328-332), or moves to the next
\* mirror, or returns None after the last one
EnsureResume ==
    /\ epc = "resume"
    /\ IF ereply.err # "none" /\ ~Caught(ereply.err)
       THEN epc' = "raised" /\ UNCHANGED <<song, emirror, egets, eoutcome>>
       ELSE IF MirrorSong(ereply) # NoSong
       THEN /\ song' = ensure_write(song, MirrorSong(ereply))
            /\ epc' = "ret"
            /\ eoutcome' = IF MirrorSong(ereply).download_urls # <<>>
                           THEN "filled" ELSE "kept"
            /\ UNCHANGED <<emirror, egets>>
       ELSE IF emirror < Len(MUSIC_APIS)
       THEN /\ epc' = "await" /\ emirror' = emirror + 1 /\ egets' = egets + 1
            /\ UNCHANGED <<song, eoutcome>>
       ELSE /\ epc' = "ret" /\ eoutcome' = "failed"
            /\ UNCHANGED <<song, emirror, egets>>
    /\ UNCHANGED <<ereply, rvars, notSong>>

\* the caller receives the song
EnsureReturn ==
    /\ epc = "ret"
    /\ epc' = "idle"
    /\ ereply' = NoReply
    /\ UNCHANGED <<song, emirror, egets, eoutcome, rvars, notSong>>

\* refresh_song up to its await: lines 241-245, and extract_stream_url
\* handing _ytdlp_extract_url_sync to the executor
RefreshCall ==
    /\ rpc = "idle"
    /\ rinfo' = NoneInfo
    /\ IF LacksWebpageUrl(song)
       THEN rpc' = "ret" /\ routcome' = "noop" /\ rextracts' = 0
       ELSE rpc' = "await" /\ routcome' = "pending" /\ rextracts' = 1
    /\ UNCHANGED <<song, ensvars, notSong>>

\* _ytdlp_extract_url_sync finishes on the worker: None (library missing,
\* extraction failed) or the info record
ExtractDone ==
    /\ rpc = "await"
    /\ \E info \in ExtractResults : rinfo' = info
    /\ rpc' = "resume"
    /\ UNCHANGED <<song, rextracts, routcome, ensvars, notSong>>

\* extract_stream_url lines 227-231 and refresh_song lines 246-249
RefreshResume ==
    /\ rpc = "resume"
    /\ LET refreshed == extract_stream_url(song.webpage_url, rinfo)
       IN  /\ song' = refresh_write(song, refreshed)
           /\ routcome' = IF refreshed # NoSong /\ refreshed.best_url # ""
                          THEN "refreshed" ELSE "kept"
    /\ rpc' = "ret"
    /\ UNCHANGED <<rinfo, rextracts, ensvars, notSong>>

\* the caller receives the song
RefreshReturn ==
    /\ rpc = "ret"
    /\ rpc' = "idle"
    /\ rinfo' = NoneInfo
    /\ UNCHANGED <<song, rextracts, routcome, ensvars, notSong>>

SongNext ==
    \/ (rpc = "idle" /\ EnsureCall)
    \/ EnsureMirrorReply
    \/ EnsureResume
    \/ EnsureReturn
    \/ (epc = "idle" /\ RefreshCall)
    \/ ExtractDone
    \/ RefreshResume
    \/ RefreshReturn

SpecSong == SongInit /\ [][SongNext]_vars

\* C1: in every song normalize_song or normalize_ytdlp_result produced, and
\* after any sequence of ensure_download_urls and refresh_song calls,
\* best_url is non-empty exactly when download_urls is, and best_url is the
\* URL _pick_best_url selects from download_urls for "320kbps".
C1_BestUrlMatchesDownloadUrls ==
    /\ (song.best_url # "") <=> (song.download_urls # <<>>)
    /\ song.best_url = _pick_best_url(song.download_urls, "320kbps")

\* a song first filled by ensure_download_urls, then refreshed
C1_Witness ==
    /\ rpc = "ret" /\ routcome = "refreshed" /\ eoutcome = "filled"
    /\ song.download_urls # <<>>

\* C7: ensure_download_urls on a song with non-empty download_urls and
\* best_url returns at once, with no GET issued and the song as it was; so
\* does a call that follows one which filled the song.
C7_CompleteSongNoRequest ==
    [][(epc = "idle" /\ epc' # "idle"
          /\ song.download_urls # <<>> /\ song.best_url # "")
       => (epc' = "ret" /\ egets' = 0 /\ song' = song)]_vars

\* the second call on a song an earlier call filled from a mirror
C7_Witness ==
    /\ epc = "ret" /\ eoutcome = "complete" /\ egets = 0
    /\ song.best_url \in {"c", "d", "e"}
    /\ song.name = "Song A"

IsFailure(reply) == reply.err # "none" \/ reply.status # "200"

SameOtherFields(s, t) ==
    /\ t.id = s.id /\ t.name = s.name
    /\ t.source = s.source /\ t.webpage_url = s.webpage_url

\* C8: ensure_download_urls never raises; no step of it changes a field
\* other than download_urls and best_url; a call on an incomplete song
\* without id returns it unchanged; when the last mirror fails too, or the
\* fetched record has no download URLs, the song is returned unchanged; and
\* when a mirror yields a record with download URLs, download_urls and
\* best_url become that record's.
C8_EnsureFrame ==
    [][/\ epc' # "raised"
       /\ (epc # "idle" \/ epc' # "idle") => SameOtherFields(song, song')
       /\ (epc = "idle" /\ epc' # "idle" /\ ~HasText(song.id))
              => (epc' = "ret" /\ song' = song)
       /\ (epc = "resume" /\ IsFailure(ereply))
              => (song' = song /\ (emirror = Len(MUSIC_APIS) => epc' = "ret"))
       /\ (epc = "resume" /\ MirrorSong(ereply) # NoSong)
              => /\ epc' = "ret"
                 /\ IF MirrorSong(ereply).download_urls # <<>>
                    THEN /\ song'.download_urls = MirrorSong(ereply).download_urls
                         /\ song'.best_url = MirrorSong(ereply).best_url
                    ELSE song' = song
      ]_vars

\* a song filled from a record whose name differs from the song's
C8_Witness ==
    /\ epc = "ret" /\ eoutcome = "filled"
    /\ song.name = "Song A" /\ song.source = Absent
    /\ song.best_url = "d"
    /\ ereply.body.data.t = "list" /\ ereply.body.data.items # <<>>
    /\ ereply.body.data.items[1].rec.name = "Tom &amp; Jerry"

\* C9: refresh_song on a song whose webpage_url is absent or empty returns
\* at once, with no extraction call and every field as it was.
C9_RefreshNoWebpageUrl ==
    [][(rpc = "idle" /\ rpc' # "idle" /\ song.webpage_url \in {Absent, ""})
       => (rpc' = "ret" /\ rextracts' = 0 /\ song' = song)]_vars

\* a media-library song without page URL went through refresh_song
C9_Witness ==
    /\ rpc = "ret" /\ routcome = "noop" /\ rextracts = 0
    /\ song.source = "youtube" /\ song.webpage_url = ""
    /\ song.best_url # ""

\* C10: when refresh_song resumes after the extraction, it overwrites
\* best_url and download_urls exactly when the worker delivered a record
\* whose audio URL is non-empty, keeps both otherwise, and leaves every other
\* field as it was.
C10_RefreshOverwritesOnlyOnSuccess ==
    [][(rpc = "resume" /\ rpc' = "ret")
       => /\ SameOtherFields(song, song')
          /\ IF ~rinfo.none /\ _extract_audio_url(rinfo) # ""
             THEN /\ song'.best_url = _extract_audio_url(rinfo)
                  /\ song'.download_urls =
                        <<[quality |-> QualityLabel(rinfo.abr),
                           url |-> _extract_audio_url(rinfo)]>>
             ELSE /\ song'.best_url = song.best_url
                  /\ song'.download_urls = song.download_urls
      ]_vars

\* an extraction that yielded an empty URL left the stream URL in place
C10_Witness ==
    /\ rpc = "ret" /\ routcome = "kept" /\ rextracts = 1
    /\ ~rinfo.none
    /\ song.best_url = "y1"

-----------------------------------------------------------------------------
(* MusicAPI.search: one call *)

SearchInit ==
    /\ spc = "idle" /\ smirror = 0 /\ scontacted = <<>> /\ sreply = NoSearchReply
    /\ sreplies = <<>> /\ sresult = JAbsent
    /\ IdleBut("search")

\* search up to its first await: the GET to the first mirror
SearchCall ==
    /\ spc = "idle"
    /\ spc' = "await" /\ smirror' = 1 /\ scontacted' = <<1>>
    /\ sreply' = NoSearchReply /\ sreplies' = <<>> /\ sresult' = JAbsent
    /\ UNCHANGED <<notSearch>>

\* the mirror's response (or the failure of the request) arrives
SearchMirrorReply ==
    /\ spc = "await"
    /\ \E reply \in SearchReplies :
          /\ sreply' = reply
          /\ sreplies' = Append(sreplies, [status |-> reply.status, err |-> reply.err])
    /\ spc' = "resume"
    /\ UNCHANGED <<smirror, scontacted, sresult, notSearch>>

\* search resumes on the response: it returns this mirror's normalised list,
\* or sends the GET to the next mirror, or returns None after the last one
SearchResume ==
    /\ spc = "resume"
    /\ IF sreply.err # "none" /\ ~Caught(sreply.err)
       THEN spc' = "raised" /\ UNCHANGED <<smirror, scontacted, sresult>>
       ELSE IF SearchMirrorResult(sreply) # JAbsent
       THEN /\ spc' = "ret" /\ sresult' = SearchMirrorResult(sreply)
            /\ UNCHANGED <<smirror, scontacted>>
       ELSE IF smirror < Len(MUSIC_APIS)
       THEN /\ spc' = "await" /\ smirror' = smirror + 1
            /\ scontacted' = Append(scontacted, smirror + 1)
            /\ UNCHANGED sresult
       ELSE /\ spc' = "ret" /\ sresult' = JAbsent
            /\ UNCHANGED <<smirror, scontacted>>
    /\ sreply' = NoSearchReply
    /\ UNCHANGED <<sreplies, notSearch>>

\* the caller receives the result; the next call may start
SearchReturn ==
    /\ spc = "ret"
    /\ spc' = "idle"
    /\ UNCHANGED <<smirror, scontacted, sreply, sreplies, sresult, notSearch>>

SearchNext == SearchCall \/ SearchMirrorReply \/ SearchResume \/ SearchReturn

SpecSearch == SearchInit /\ [][SearchNext]_vars

\* a body none of whose three result locations holds a list with a mapping
NoSongAnywhere(body) ==
    \A r \in {body.data.results, body.data.data.results, body.results} :
        r.t # "list" \/ \A i \in 1..Len(r.v) : ~r.v[i].isdict

Unanswered(reply) == reply.err # "none" \/ reply.status # "200"

\* C5: search never raises; it returns None or a non-empty list, never an
\* empty list; when a response is a failure or its body holds no usable
\* result, that mirror gives no result (the last mirror: search returns
\* None); None is returned only after all mirrors were contacted, and is
\* returned when every mirror answered with a non-200 status, a timeout or
\* an exception.
C5_AllMirrorsFailGivesNone ==
    [][/\ spc' # "raised"
       /\ spc' = "ret" => (sresult' = JAbsent
                           \/ (sresult'.t = "list" /\ sresult'.v # <<>>))
       /\ (spc' = "ret" /\ sresult' = JAbsent) => Len(scontacted') = Len(MUSIC_APIS)
       /\ (spc = "resume" /\ (Unanswered(sreply) \/ NoSongAnywhere(sreply.body)))
              => IF smirror = Len(MUSIC_APIS)
                 THEN spc' = "ret" /\ sresult' = JAbsent
                 ELSE spc' = "await"
       /\ (spc' = "ret" /\ Len(sreplies') = Len(MUSIC_APIS)
             /\ \A i \in 1..Len(sreplies') :
                   sreplies'[i].err # "none" \/ sreplies'[i].status # "200")
              => sresult' = JAbsent
      ]_vars

\* all four mirrors answered 500
C5_Witness ==
    /\ spc = "ret" /\ sresult = JAbsent
    /\ sreplies = [i \in 1..4 |-> [status |-> "500", err |-> "none"]]

\* the mirror whose response is being handled yields a usable result
Yields(reply) ==
    /\ reply.err = "none" /\ reply.status = "200"
    /\ UnwrapResults(reply.body).t = "list"
    /\ normalize_songs(UnwrapResults(reply.body).v) # <<>>

\* C6: the mirrors are contacted one at a time in the configured order, each
\* at most once per call; a further mirror is contacted only when the
\* response of the one before it is a failure or yields no usable result;
\* when a response yields a usable result the call returns that mirror's
\* normalised list and contacts no later mirror.
C6_SequentialOrderedFallback ==
    [][/\ scontacted' = [i \in 1..Len(scontacted') |-> i]
       /\ Len(scontacted') <= Len(MUSIC_APIS)
       /\ Len(scontacted') - Len(sreplies') \in {0, 1}
       /\ (spc' = "await") <=> (Len(scontacted') = Len(sreplies') + 1)
       /\ (spc # "idle" /\ scontacted' # scontacted)
              => /\ spc = "resume" /\ ~Yields(sreply)
                 /\ scontacted' = Append(scontacted, smirror + 1)
       /\ (spc = "resume" /\ Yields(sreply))
              => /\ spc' = "ret" /\ scontacted' = scontacted
                 /\ sresult' = JList(normalize_songs(UnwrapResults(sreply.body).v))
      ]_vars

\* the third mirror answered with a usable list after two failures
C6_Witness ==
    /\ spc = "ret" /\ scontacted = <<1, 2, 3>>
    /\ sresult.t = "list" /\ Len(sresult.v) = 2
    /\ sreplies[1].status = "500" /\ sreplies[2].err = "timeout"
    /\ sreplies[3].status = "200"

-----------------------------------------------------------------------------
(* normalize_song on whole upstream records *)

NormInit ==
    /\ nphase = "raw"
    /\ nraw \in NormInputs
    /\ nout = NoNormResult
    /\ IdleBut("norm")

\* one call of normalize_song: it returns the song or ends with an exception
NormalizeSongFields ==
    /\ nphase = "raw"
    /\ nout' = normalize_song_fields(nraw)
    /\ nphase' = "done"
    /\ UNCHANGED <<nraw, notNorm>>

NormNext == NormalizeSongFields

SpecNorm == NormInit /\ [][NormNext]_vars

\* C11 as stated: normalize_song never raises, whatever the types and shapes
\* of the record's fields; a duration that is not a finite number gives
\* duration 0 and "0:00", and a record without usable download entries gives
\* best_url "".
C11_NormalizeNeverRaises ==
    nphase = "done" =>
        /\ nout.raised = NoError
        /\ (nraw.duration.t \in {"none", "list"}
              \/ nraw.duration \in {PyStr("3:35"), PyFloat("inf"), PyFloat("nan")})
               => (nout.song.duration = 0 /\ nout.song.duration_formatted = "0:00")

\* the sources of the artist string, in the order stated; "" where a source
\* is of another type
TextNames(items) ==
    LET named == SelectSeq(items, LAMBDA a : a.isdict /\ a.name.t = "str"
                                              /\ a.name.v # "")
    IN  [k \in 1..Len(named) |-> named[k].name.v]

ArtistSources(s) ==
    << IF s.primaryArtists.t = "str" THEN _safe_unescape(s.primaryArtists.s) ELSE "",
       IF s.primaryArtists.t = "list"
       THEN _safe_unescape(Join(TextNames(s.primaryArtists.items), ", ")) ELSE "",
       IF s.artists.t = "dict" /\ s.artists.primary.t = "list"
       THEN _safe_unescape(Join(TextNames(s.artists.primary.items), ", ")) ELSE "",
       IF s.artist.t = "str" THEN _safe_unescape(s.artist.v) ELSE "" >>

FirstNonEmpty(srcs) ==
    LET hits == {i \in 1..Len(srcs) : srcs[i] # ""}
    IN  IF hits = {} THEN "Unknown" ELSE srcs[Min(hits)]

\* every artist name and the flat artist are strings or missing
TextArtistsOnly(s) ==
    /\ \A i \in 1..Len(s.primaryArtists.items) :
          s.primaryArtists.items[i].name.t \in {"str", "absent"}
    /\ \A i \in 1..Len(s.artists.primary.items) :
          s.artists.primary.items[i].name.t \in {"str", "absent"}
    /\ s.artist.t \in {"str", "absent", "none"}

\* C12 as stated: the artist is the first of primaryArtists as a string,
\* primaryArtists as a list of objects (names joined with ", "),
\* artists.primary as a list of objects (names joined with ", ") and the flat
\* artist string that is non-empty, "Unknown" when none is; it is never the
\* empty string.
C12_ArtistFirstNonEmptySource ==
    (nphase = "done" /\ nout.raised = NoError /\ TextArtistsOnly(nraw)) =>
        /\ nout.song.artist = FirstNonEmpty(ArtistSources(nraw))
        /\ nout.song.artist # ""
        /\ nraw.artists = ArtistsObj("dict", "list",
                              <<ArtistItem(TRUE, PyStr("A")),
                                ArtistItem(TRUE, PyStr("B"))>>)
           /\ nraw.primaryArtists = NoPrimaryArtists
              => nout.song.artist = "A, B"

\* the URL of an image entry: its url, else its link, else ""
ImageUrlOf(e) ==
    IF HasText(e.url) THEN e.url ELSE IF HasText(e.link) THEN e.link ELSE ""

\* C13: when the image list holds an entry of quality "500x500", the image
\* field is the URL (url or link key) of the first such entry, whatever its
\* position; when it holds none, the image field is the URL of the last
\* list element; when the image list is absent, empty or not a list, the
\* image field is "".
C13_ImagePrefers500 ==
    (nphase = "done" /\ nout.raised = NoError) =>
        LET imgs == IF nraw.image.t = "list" THEN nraw.image.items ELSE <<>>
            big == {i \in 1..Len(imgs) :
                      imgs[i].isdict /\ imgs[i].quality = "500x500"}
        IN  IF big # {}
            THEN \E i \in big : /\ \A j \in big : i <= j
                                /\ nout.song.image = ImageUrlOf(imgs[i])
            ELSE IF imgs # <<>> /\ imgs[Len(imgs)].isdict
            THEN nout.song.image = ImageUrlOf(imgs[Len(imgs)])
            ELSE nout.song.image = ""

\* a 500x500 entry in the middle of a list whose last entry is smaller
C13_Witness ==
    /\ nphase = "done" /\ nout.raised = NoError
    /\ nraw.image.t = "list" /\ Len(nraw.image.items) = 3
    /\ nraw.image.items[1].quality = "150x150"
    /\ nraw.image.items[2] = ImageEntry("500x500", Absent, "l5")
    /\ nraw.image.items[3].quality = "50x50"
    /\ nout.song.image = "l5"

-----------------------------------------------------------------------------
(* is_music_url, SPOTIFY_PATTERN.search and resolve_url applied to one text, *)
(* one after the other                                                       *)

ResolveInit ==
    /\ utext \in Texts
    /\ umusic = "unset" /\ umatch = PyAbsent /\ uargs = <<>>
    /\ ucall = "none" /\ upc = "idle" /\ uvia = "none"
    /\ ureqs = <<>> /\ ureply = NoResolverReply /\ uresult = PyAbsent
    /\ IdleBut("resolve")

IsMusicUrl ==
    /\ umusic = "unset" /\ ucall = "none"
    /\ umusic' = IF is_music_url(utext) THEN "true" ELSE "false"
    /\ UNCHANGED <<utext, umatch, uargs, ucall, upc, uvia, ureqs, ureply, uresult,
                   notResolve>>

\* SPOTIFY_PATTERN.search(text) and, on a match, group(1)
SpotifyPatternSearch ==
    /\ umusic # "unset" /\ umatch = PyAbsent /\ ucall = "none"
    /\ umatch' = IF SpotifySearch(utext) = 0 THEN PyNone
                 ELSE PyStr(Text(SpotifyGroup1(utext)))
    /\ UNCHANGED <<utext, umusic, uargs, ucall, upc, uvia, ureqs, ureply, uresult,
                   notResolve>>

\* resolve_url up to its first await or, when no request is made, its return
ResolveUrl ==
    /\ umatch # PyAbsent /\ upc = "idle" /\ ucall = "none"
    /\ ucall' = "resolve_url"
    /\ LET url == Strip(utext)
           resolver == Dispatch(url)
       IN  /\ uvia' = resolver
           /\ CASE resolver = "spotify" ->
                     /\ ureqs' = <<oembed_url(url)>>
                     /\ upc' = "await" /\ UNCHANGED uresult
                [] resolver = "deezer" ->
                     /\ ureqs' = <<api_url(DeezerGroup1(url))>>
                     /\ upc' = "await" /\ UNCHANGED uresult
                [] resolver = "apple_album" ->
                     /\ uresult' = _resolve_apple_music_album(url)
                     /\ upc' = "ret" /\ UNCHANGED ureqs
                [] resolver = "apple_song" ->
                     /\ uresult' = _resolve_apple_music_song(url)
                     /\ upc' = "ret" /\ UNCHANGED ureqs
                [] OTHER ->
                     /\ uresult' = PyNone
                     /\ upc' = "ret" /\ UNCHANGED ureqs
    /\ UNCHANGED <<utext, umusic, umatch, uargs, ureply, notResolve>>

\* the endpoint's response (or the failure of the request) arrives
ResolverReply ==
    /\ upc = "await"
    /\ \E reply \in ResolverReplies : ureply' = reply
    /\ upc' = "resume"
    /\ UNCHANGED <<utext, umusic, umatch, uargs, ucall, uvia, ureqs, uresult,
                   notResolve>>

\* _resolve_spotify / _resolve_deezer resume on the response and return
ResolverResume ==
    /\ upc = "resume"
    /\ IF ureply.err # "none" /\ ~ResolverCaught(ureply.err)
       THEN upc' = "raised" /\ UNCHANGED uresult
       ELSE /\ upc' = "ret"
            /\ uresult' = IF uvia = "spotify" THEN SpotifyResult(ureply)
                          ELSE DeezerResult(ureply)
    /\ UNCHANGED <<utext, umusic, umatch, uargs, ucall, uvia, ureqs, ureply,
                   notResolve>>

ResolveNext ==
    \/ IsMusicUrl
    \/ SpotifyPatternSearch
    \/ ResolveUrl
    \/ ResolverReply
    \/ ResolverResume

SpecResolve == ResolveInit /\ [][ResolveNext]_vars

-----------------------------------------------------------------------------
(* _resolve_deezer called on its own *)

DeezerInit ==
    /\ utext = <<>>
    /\ umusic = "unset" /\ umatch = PyAbsent /\ uargs = <<>>
    /\ ucall = "none" /\ upc = "idle" /\ uvia = "none"
    /\ ureqs = <<>> /\ ureply = NoResolverReply /\ uresult = PyAbsent
    /\ IdleBut("resolve")

\* a call _resolve_deezer(*args): the three parameters url, track_id and
\* session are bound by position, and a call with fewer arguments raises
\* TypeError before the body runs
ResolveDeezer ==
    /\ upc = "idle" /\ ucall = "none"
    /\ ucall' = "_resolve_deezer" /\ uvia' = "deezer"
    /\ \E args \in DeezerArgLists :
          /\ uargs' = args
          /\ IF Len(args) # 3
             THEN upc' = "raised" /\ UNCHANGED ureqs
             ELSE upc' = "await" /\ ureqs' = <<api_url(args[2].chars)>>
    /\ UNCHANGED <<utext, umusic, umatch, ureply, uresult, notResolve>>

DeezerNext == ResolveDeezer \/ ResolverReply \/ ResolverResume

SpecDeezer == DeezerInit /\ [][DeezerNext]_vars

-----------------------------------------------------------------------------
(* Properties of the link resolver *)

Resolvers == {"spotify", "deezer", "apple_album", "apple_song"}

\* C14: is_music_url(u) is true exactly when resolve_url(u) hands u to one
\* of the four resolvers; blanks around a link change neither (a padded
\* direct song link is accepted); and for a text is_music_url rejects,
\* resolve_url returns None without a request.
C14_MusicUrlIffDispatched ==
    ucall = "resolve_url" =>
        /\ (umusic = "true") <=> (uvia \in Resolvers)
        /\ umusic = "false" => (upc = "ret" /\ uresult = PyNone /\ ureqs = <<>>)
        /\ umusic = "false" =>
              \A scheme \in AppleSchemes, slug \in Slugs, suffix \in TrackParams :
                 Strip(utext) # AppleLink(scheme, SongKind, slug, AlbumId, suffix)

\* a direct song link with blanks around it
C14_Witness ==
    /\ ucall = "resolve_url" /\ upc = "ret"
    /\ utext # Strip(utext)
    /\ umusic = "true" /\ uvia = "apple_song"

\* C15: SPOTIFY_PATTERN matches a track link with or without an
\* intl-<locale> segment and with or without an http or https scheme, and
\* group(1) is the run of letters and digits after /track/; it matches
\* neither an album link nor a link of another site.
C15_SpotifyTrackLinks ==
    (umatch # PyAbsent /\ ucall = "none") =>
        /\ \A scheme \in Schemes, locale \in Locales, id \in TrackIds,
              suffix \in Suffixes :
              /\ Strip(utext) = SpotifyLink(scheme, locale, TrackPath, id, suffix)
                    => umatch = PyStr(Text(id))
              /\ Strip(utext) = SpotifyLink(scheme, locale, AlbumPath, id, suffix)
                    => umatch = PyNone
        /\ Strip(utext) \in DeezerTexts \cup AppleTexts \cup OtherTexts
              => umatch = PyNone

\* a link without scheme and with a locale segment
C15_Witness ==
    /\ ucall = "none"
    /\ utext = SpotifyLink(<<>>, <<"i", "n", "t", "l", "-", "d", "e", "/">>,
                           TrackPath, LongTrackId, <<>>)
    /\ umatch = PyStr("6rqhFgbbKwnb9MLmUQDhG6")

\* the characters quote(url, safe="") leaves in its result
IsQuoted(c) == IsAlnum(c) \/ c \in {"_", ".", "-", "~", "%"}

\* C16: a Spotify link makes resolve_url issue exactly one GET, to the
\* oEmbed endpoint with the percent-encoded url as its parameter; the call
\* returns the response's title as it is when the status is 200 and the
\* title is non-empty, and None for any other status, a timeout, an
\* exception, and an empty or missing title; it never raises.
C16_SpotifyOneRequestTitleVerbatim ==
    (ucall = "resolve_url" /\ uvia = "spotify") =>
        /\ upc # "raised"
        /\ Len(ureqs) = 1
        /\ ureqs[1].base = "https://open.spotify.com/oembed?url="
        /\ upc = "await" =>
              /\ unquote(ureqs[1].key) = Strip(utext)
              /\ \A i \in 1..Len(ureqs[1].key) : IsQuoted(ureqs[1].key[i])
        /\ upc = "ret" =>
              IF /\ ureply.err = "none" /\ ureply.status = "200"
                 /\ ureply.body.t = "dict"
                 /\ ureply.body.title.t = "str" /\ ureply.body.title.v # ""
              THEN uresult = ureply.body.title
              ELSE uresult = PyNone

\* a 200 response with a title
C16_Witness ==
    /\ ucall = "resolve_url" /\ uvia = "spotify" /\ upc = "ret"
    /\ ureply.status = "200"
    /\ uresult = PyStr("Cool Song")

\* what the slugs of the model's links stand for
QueryOfSlug(slug) ==
    CASE slug = SlugPlain -> "my cool song"
      [] slug = SlugEncodedBlank -> "hello world"
      [] slug = SlugEncodedHyphen -> "a b c"
      [] slug = SlugStrayPercent -> "100% x"

\* C18: an Apple Music link makes resolve_url return at once, with no
\* request, the slug percent-decoded and with every hyphen replaced by a
\* blank; album links, with or without ?i=<trackId>, and song links give
\* the same query for the same slug.
C18_AppleSlugToQuery ==
    (ucall = "resolve_url" /\ uvia \in {"apple_album", "apple_song"}) =>
        /\ ureqs = <<>> /\ upc = "ret"
        /\ \A scheme \in AppleSchemes, kind \in {AlbumKind, SongKind},
              slug \in Slugs, suffix \in TrackParams :
              Strip(utext) = AppleLink(scheme, kind, slug, AlbumId, suffix)
                 => uresult = PyStr(QueryOfSlug(slug))

\* .../album/my-cool-song/123?i=456
C18_Witness ==
    /\ ucall = "resolve_url" /\ uvia = "apple_album" /\ upc = "ret"
    /\ \E scheme \in AppleSchemes :
          Strip(utext) = AppleLink(scheme, AlbumKind, SlugPlain, AlbumId,
                                   <<"?", "i", "=", "4", "5", "6">>)
    /\ uresult = PyStr("my cool song")

\* the track id of a direct call: the string argument before the session
TrackIdArg(args) == args[Len(args) - 1].chars

\* C17 as stated: _resolve_deezer, given the track id and the session,
\* never raises and issues one GET keyed by that id; it returns
\* "<title> <artist.name>" when both are non-empty, the title when only the
\* title is, and None when the title is empty, the status is not 200 or the
\* request fails.
C17_DeezerTitleAndArtist ==
    ucall = "_resolve_deezer" =>
        /\ upc # "raised"
        /\ ureqs = <<Request("https://api.deezer.com/track/", TrackIdArg(uargs))>>
        /\ upc = "ret" =>
              LET title == ureply.body.title
                  name == ureply.body.artist.name
                  ok == ureply.err = "none" /\ ureply.status = "200"
              IN  IF ok /\ PyTruthy(title) /\ ureply.body.artist.t = "dict"
                     /\ PyTruthy(name)
                  THEN uresult = PyStr(title.v \o " " \o name.v)
                  ELSE IF ok /\ PyTruthy(title) THEN uresult = title
                  ELSE uresult = PyNone

-----------------------------------------------------------------------------
(* search_youtube / search_soundcloud: one call, its worker, its return *)

YtInit ==
    /\ ypc = "idle" /\ ysource = "none" /\ yextract = NoExtraction
    /\ yraw = <<>> /\ yresult = NoYtResult
    /\ IdleBut("yt")

\* search_youtube, lines 198-202: the blocking search is handed to the executor
SearchYoutube ==
    /\ ypc = "idle"
    /\ ysource' = "youtube"
    /\ ypc' = "executor"
    /\ UNCHANGED <<yextract, yraw, yresult, notYt>>

\* search_soundcloud, lines 208-212
SearchSoundcloud ==
    /\ ypc = "idle"
    /\ ysource' = "soundcloud"
    /\ ypc' = "executor"
    /\ UNCHANGED <<yextract, yraw, yresult, notYt>>

\* the worker runs _ytdlp_search_sync to its end
YtdlpSearchSync ==
    /\ ypc = "executor"
    /\ \E x \in Extractions :
          /\ yextract' = x
          /\ yraw' = _ytdlp_search_sync(x)
    /\ ypc' = "resume"
    /\ UNCHANGED <<ysource, yresult, notYt>>

\* lines 203 / 213: the awaited list is normalised and returned
YtSearchReturn ==
    /\ ypc = "resume"
    /\ yresult' = NormalizeAll(yraw, ysource)
    /\ ypc' = IF yresult'.raised = NoError THEN "ret" ELSE "raised"
    /\ UNCHANGED <<ysource, yextract, yraw, notYt>>

YtNext == SearchYoutube \/ SearchSoundcloud \/ YtdlpSearchSync \/ YtSearchReturn

SpecYt == YtInit /\ [][YtNext]_vars

\* the extraction gave no entry: no library, an exception, None, or a result
\* with no entries that is no single record
NoEntries(x) ==
    \/ x.kind \in {"import_error", "raises"}
    \/ x.result.none
    \/ /\ x.result.entries.items = <<>>
       /\ ~HasText(x.result.self.info.id)

\* C19 as stated: search_youtube and search_soundcloud never raise and return
\* a list: the empty list when the library is missing, the extraction raises
\* or there is no entry, and otherwise one normalised song, tagged with the
\* function's source, for every entry the extraction handed back, however
\* shaped.
C19_SearchAlwaysReturnsList ==
    /\ ypc # "raised"
    /\ ypc = "ret" =>
          /\ yresult.raised = NoError
          /\ NoEntries(yextract) => yresult.songs = <<>>
          /\ Len(yresult.songs) = Len(yraw)
          /\ \A i \in 1..Len(yresult.songs) : yresult.songs[i].source = ysource

-----------------------------------------------------------------------------
(* LyricsFetcher._search_lrclib: one call *)

LyricsInit ==
    /\ lpc = "idle" /\ lreqs = 0 /\ lreply = NoLrclibReply /\ lresult = NoLyrics
    /\ IdleBut("lyrics")

\* lines 37-42: the GET of {LRCLIB_BASE}/search is issued
SearchLrclib ==
    /\ lpc = "idle"
    /\ lreqs' = lreqs + 1
    /\ lpc' = "await"
    /\ UNCHANGED <<lreply, lresult, notLyrics>>

\* the endpoint answers, or the request fails
LrclibReply ==
    /\ lpc = "await"
    /\ lreply' \in LrclibReplies
    /\ lpc' = "resume"
    /\ UNCHANGED <<lreqs, lresult, notLyrics>>

\* lines 43-97
LrclibResume ==
    /\ lpc = "resume"
    /\ lresult' = LrclibResult(lreply)
    /\ lpc' = "ret"
    /\ UNCHANGED <<lreqs, lreply, notLyrics>>

LyricsNext == SearchLrclib \/ LrclibReply \/ LrclibResume

SpecLyrics == LyricsInit /\ [][LyricsNext]_vars

\* the response is a 200 whose body is a list
LrclibListed == lreply.err = "none" /\ lreply.status = "200" /\ lreply.body.t = "list"

\* positions of the entries flagged instrumental
Instrumentals(data) == {i \in 1..Len(data) : data[i].dict /\ IsInstrumental(data[i])}

\* positions of the entries that carry non-blank plainLyrics
WithLyrics(data) == {i \in 1..Len(data) : data[i].dict /\ NonBlank(data[i].plainLyrics)}

-----------------------------------------------------------------------------
(* LyricsFetcher.search and _search_lyrics_ovh: one call *)

FetchInit ==
    /\ fcall = "none" /\ fpc = "idle"
    /\ fquery \in Queries /\ fartist \in QueryArtists /\ ftitle \in QueryTitles
    /\ fstep = "none" /\ freqs = <<>> /\ fouts = <<>>
    /\ freply = NoFetchReply /\ fresult = NoFound
    /\ IdleBut("fetch")

\* search, line 169: _search_lrclib issues its GET
LyricsSearch ==
    /\ fpc = "idle"
    /\ fcall' = "search"
    /\ fstep' = "lrclib"
    /\ freqs' = <<LrclibRequest(fquery)>>
    /\ fpc' = "await"
    /\ UNCHANGED <<fquery, fartist, ftitle, fouts, freply, fresult, notFetch>>

\* _search_lyrics_ovh called on its own, lines 107-116
SearchLyricsOvh ==
    /\ fpc = "idle"
    /\ fcall' = "_search_lyrics_ovh"
    /\ IF OvhSkips(fartist, ftitle)
       THEN /\ fpc' = "ret"
            /\ UNCHANGED <<fstep, freqs>>
       ELSE /\ fstep' = "direct"
            /\ freqs' = <<OvhRequest(fartist, ftitle)>>
            /\ fpc' = "await"
    /\ UNCHANGED <<fquery, fartist, ftitle, fouts, freply, fresult, notFetch>>

\* the provider answers, or the request fails
FetchAnswer ==
    /\ fpc = "await"
    /\ freply' \in IF fstep = "lrclib" THEN LrclibAnswers ELSE OvhAnswers
    /\ fpc' = "resume"
    /\ UNCHANGED <<fcall, fquery, fartist, ftitle, fstep, freqs, fouts, fresult,
                   notFetch>>

\* the provider call returns; search returns its result or goes on to the
\* next provider call (lines 170-186)
FetchResume ==
    /\ fpc = "resume"
    /\ LET result == IF fstep = "lrclib" THEN LrclibFound(freply) ELSE OvhFound(freply)
           next == StepAfter(fstep, fquery, fartist, ftitle)
           args == StepArgs(next, fquery, fartist, ftitle)
       IN  /\ fouts' = Append(fouts, result)
           /\ IF ~result.none \/ fstep = "direct"
              THEN /\ fresult' = result
                   /\ fpc' = "ret"
                   /\ UNCHANGED <<fstep, freqs>>
              ELSE IF next = "none" \/ OvhSkips(args.artist, args.title)
              THEN /\ fresult' = NoFound
                   /\ fpc' = "ret"
                   /\ UNCHANGED <<fstep, freqs>>
              ELSE /\ fstep' = next
                   /\ freqs' = Append(freqs, OvhRequest(args.artist, args.title))
                   /\ fpc' = "await"
                   /\ UNCHANGED fresult
    /\ UNCHANGED <<fcall, fquery, fartist, ftitle, freply, notFetch>>

FetchNext == LyricsSearch \/ SearchLyricsOvh \/ FetchAnswer \/ FetchResume

SpecFetch == FetchInit /\ [][FetchNext]_vars

\* the provider calls search makes when every one of them gives nothing
ProviderChain(query, artist, title) ==
    <<LrclibRequest(query)>>
    \o (IF artist # <<>> /\ title # <<>> THEN <<OvhRequest(artist, title)>> ELSE <<>>)
    \o (IF HasDash(query) /\ SplitAtDash(query).artist # <<>>
           /\ SplitAtDash(query).title # <<>>
        THEN <<OvhRequest(SplitAtDash(query).artist, SplitAtDash(query).title)>>
        ELSE <<>>)

\* C21: search asks LRCLIB first, then lyrics.ovh with the explicit artist and
\* title if both are non-empty, then lyrics.ovh with the query split at its
\* first " - " if it has one; a provider is asked only after every earlier one
\* gave nothing, the first result is returned, None is returned when all give
\* nothing, and no lyrics.ovh request is made with an empty artist or title.
C21_ProvidersInOrderFirstResult ==
    fcall = "search" =>
        LET chain == ProviderChain(fquery, fartist, ftitle)
        IN  /\ Len(freqs) <= Len(chain)
            /\ freqs = SubSeq(chain, 1, Len(freqs))
            /\ Len(fouts) <= Len(freqs)
            /\ \A i \in 1..Len(fouts) : i < Len(freqs) => fouts[i].none
            /\ \A i \in 1..Len(freqs) :
                  freqs[i].provider = "ovh" =>
                      freqs[i].artist # <<>> /\ freqs[i].title # <<>>
            /\ fpc = "ret" =>
                  /\ Len(fouts) = Len(freqs)
                  /\ fresult = fouts[Len(fouts)]
                  /\ fresult.none => Len(freqs) = Len(chain)

\* LRCLIB and the explicit artist and title gave nothing, and the lyrics come
\* from the query split at its first " - "
C21_Witness ==
    /\ fcall = "search" /\ fpc = "ret" /\ Len(freqs) = 3
    /\ fartist = <<"X">> /\ ftitle = <<"Y">>
    /\ freqs[3].artist = <<"A">> /\ freqs[3].title = <<"B", " ", "-", " ", "C">>
    /\ fresult = Found("lyrics.ovh", LyricsText(<<"h", "i">>), FALSE)

\* C22 as stated: _search_lyrics_ovh issues exactly one request, whose URL
\* carries the artist and the title percent-encoded, so that neither adds a
\* raw slash to the path.
C22_OvhUrlPercentEncoded ==
    (fcall = "_search_lyrics_ovh" /\ fpc # "idle"
     /\ fartist # <<>> /\ ftitle # <<>>) =>
        /\ Len(freqs) = 1
        /\ freqs[1].url =
              LYRICS_OVH_BASE \o <<"/">> \o quote(fartist) \o <<"/">> \o quote(ftitle)

\* the three envelope locations of a response body, in the order they are
\* tried: data.results, data.data.results, results
EnvelopeLocations(body) ==
    <<IF body.data.t = "dict" THEN body.data.results ELSE JAbsent,
      IF body.data.t = "dict" /\ body.data.data.t = "dict"
      THEN body.data.data.results ELSE JAbsent,
      body.results>>

\* C23 as stated: for a 200 response, search takes its results from the first
\* of the three locations that holds a non-empty list, whatever the earlier
\* locations hold (absent, empty, not a list), and returns its normalisation.
C23_FirstNonEmptyLocation ==
    [][(spc = "resume" /\ sreply.err = "none" /\ sreply.status = "200"
        /\ sreply.body.t = "dict")
       => LET locs == EnvelopeLocations(sreply.body)
              hits == {i \in 1..3 : locs[i].t = "list" /\ locs[i].v # <<>>}
          IN  (hits # {} /\ normalize_songs(locs[Min(hits)].v) # <<>>)
                 => /\ spc' = "ret"
                    /\ sresult' = JList(normalize_songs(locs[Min(hits)].v))
      ]_vars

-----------------------------------------------------------------------------
(* MusicAPI.get_song_by_id: one call *)

GetInit ==
    /\ gpc = "idle" /\ gmirror = 0 /\ gcontacted = <<>> /\ greply = NoReply
    /\ gresult = NoSong
    /\ IdleBut("get")

\* get_song_by_id up to its first await: the GET to the first mirror
GetSongCall ==
    /\ gpc = "idle"
    /\ gpc' = "await" /\ gmirror' = 1 /\ gcontacted' = <<1>>
    /\ UNCHANGED <<greply, gresult, notGet>>

\* the mirror's response (or the failure of the request) arrives
GetSongReply ==
    /\ gpc = "await"
    /\ greply' \in GetReplies
    /\ gpc' = "resume"
    /\ UNCHANGED <<gmirror, gcontacted, gresult, notGet>>

\* lines 275-310: the response gives the song returned, or the GET to the
\* next mirror is sent, or None is returned after the last one
GetSongResume ==
    /\ gpc = "resume"
    /\ IF greply.err # "none" /\ ~Caught(greply.err)
       THEN gpc' = "raised" /\ UNCHANGED <<gmirror, gcontacted, gresult>>
       ELSE IF MirrorSong(greply) # NoSong
       THEN /\ gpc' = "ret" /\ gresult' = MirrorSong(greply)
            /\ UNCHANGED <<gmirror, gcontacted>>
       ELSE IF gmirror < Len(MUSIC_APIS)
       THEN /\ gpc' = "await" /\ gmirror' = gmirror + 1
            /\ gcontacted' = Append(gcontacted, gmirror + 1)
            /\ UNCHANGED gresult
       ELSE /\ gpc' = "ret" /\ gresult' = NoSong
            /\ UNCHANGED <<gmirror, gcontacted>>
    /\ UNCHANGED <<greply, notGet>>

GetNext == GetSongCall \/ GetSongReply \/ GetSongResume

SpecGet == GetInit /\ [][GetNext]_vars

\* the record a body holds, by what its data member is: a non-empty list
\* (its first element), a mapping with an id (itself), a mapping without id
\* wrapping results or data (a non-empty list's first element, or a mapping
\* with an id), anything else (the top-level mapping, if it has an id)
RecordHeld(body) ==
    LET data == body.data
        wrapped == IF data.results.t \in {"absent"}
                      \/ (data.results.t = "list" /\ data.results.items = <<>>)
                   THEN data.data ELSE data.results
    IN  CASE body.t # "dict" -> NoItem
          [] body.t = "dict" /\ data.t = "list" /\ data.items # <<>> -> data.items[1]
          [] body.t = "dict" /\ data.t = "dict" /\ HasText(data.rec.id) ->
                DictItem(data.rec)
          [] body.t = "dict" /\ data.t = "dict" /\ ~HasText(data.rec.id) ->
                IF wrapped.t = "list" /\ wrapped.items # <<>> THEN wrapped.items[1]
                ELSE IF wrapped.t = "dict" /\ HasText(wrapped.rec.id)
                THEN DictItem(wrapped.rec)
                ELSE NoItem
          [] OTHER -> IF HasText(body.rec.id) THEN DictItem(body.rec) ELSE NoItem

\* the response gives a song: a 200 whose record is a mapping with an id
GivesSong(reply) ==
    /\ reply.err = "none" /\ reply.status = "200"
    /\ RecordHeld(reply.body).isdict
    /\ HasText(RecordHeld(reply.body).rec.id)

\* C24: get_song_by_id contacts the mirrors one at a time in the configured
\* order and never raises; a failure (non-200, timeout, exception) or a body
\* holding no record with an id makes it go on to the next mirror; the first
\* response whose body holds a record (data a non-empty list, data a mapping
\* with an id, data a mapping wrapping results/data, or the bare top-level
\* mapping with an id) gives the returned normalised song, whose id is
\* non-empty; None is returned only after the last mirror.
C24_FirstMirrorWithRecord ==
    [][/\ gpc' # "raised"
       /\ gcontacted' = [i \in 1..Len(gcontacted') |-> i]
       /\ Len(gcontacted') <= Len(MUSIC_APIS)
       /\ (gpc = "resume" /\ GivesSong(greply))
             => /\ gpc' = "ret" /\ gcontacted' = gcontacted
                /\ gresult' = normalize_song(RecordHeld(greply.body).rec)
                /\ gresult'.id # ""
       /\ (gpc = "resume" /\ ~GivesSong(greply))
             => IF gmirror = Len(MUSIC_APIS)
                THEN gpc' = "ret" /\ gresult' = NoSong
                ELSE gpc' = "await" /\ gcontacted' = Append(gcontacted, gmirror + 1)
       /\ (gpc' = "ret" /\ gresult' = NoSong) => Len(gcontacted') = Len(MUSIC_APIS)
      ]_vars

\* the third mirror's body, a data mapping wrapping a results list, gave the
\* song after two mirrors gave none
C24_Witness ==
    /\ gpc = "ret" /\ gcontacted = <<1, 2, 3>>
    /\ greply.body.data.t = "dict" /\ greply.body.data.results.t = "list"
    /\ greply.body.data.results.items # <<>>
    /\ gresult = normalize_song(greply.body.data.results.items[1].rec)
    /\ gresult.id = "s1" /\ gresult.name = "Tom & Jerry"

\* the order the patterns are tried in
PatternOrder == <<"spotify", "deezer", "apple_album", "apple_song">>

\* the pattern named n is found in url
Found_in(n, url) ==
    CASE n = "spotify" -> SpotifySearch(url) # 0
      [] n = "deezer" -> DeezerSearch(url) # 0
      [] n = "apple_album" -> AppleAlbumSearch(url) # 0
      [] n = "apple_song" -> AppleSongSearch(url) # 0

\* C25: resolve_url hands the url to the resolver of the first pattern, in
\* the order Spotify, Deezer, Apple Music album, Apple Music song, that is
\* found in it; no other resolver is called (at most one request, made by
\* that resolver), and when that resolver gives nothing resolve_url returns
\* None although a later pattern is found in the url too.
C25_FirstMatchingPatternOnly ==
    (ucall = "resolve_url" /\ upc \in {"await", "ret"}) =>
        LET url == Strip(utext)
            hits == {i \in 1..4 : Found_in(PatternOrder[i], url)}
        IN  /\ uvia = IF hits = {} THEN "none" ELSE PatternOrder[Min(hits)]
            /\ Len(ureqs) = IF uvia \in {"spotify", "deezer"} THEN 1 ELSE 0
            /\ uvia = "spotify" => ureqs[1].base = "https://open.spotify.com/oembed?url="
            /\ uvia = "deezer" => ureqs[1].base = "https://api.deezer.com/track/"
            /\ (upc = "ret" /\ uvia \in {"spotify", "deezer"}
                /\ (ureply.err # "none" \/ ureply.status # "200"))
                  => uresult = PyNone

\* a text holding a Deezer link and then a Spotify link: the Spotify
\* resolver got a 404 and None is returned with the one oEmbed request
C25_Witness ==
    /\ ucall = "resolve_url" /\ upc = "ret" /\ uvia = "spotify"
    /\ DeezerSearch(Strip(utext)) # 0
    /\ ureply.status = "404" /\ uresult = PyNone
    /\ Len(ureqs) = 1

-----------------------------------------------------------------------------
(* _extract_audio_url: one call *)

AudioInit ==
    /\ aphase = "raw" /\ ainfo \in AudioInfos /\ aurl = Absent
    /\ IdleBut("audio")

ExtractAudioUrl ==
    /\ aphase = "raw"
    /\ aurl' = _extract_audio_url(ainfo)
    /\ aphase' = "done"
    /\ UNCHANGED <<ainfo, notAudio>>

AudioNext == ExtractAudioUrl

SpecAudio == AudioInit /\ [][AudioNext]_vars

\* C26 as stated: the URL is that of the first requested format entry whose
\* audio codec is present (set and not "none") and whose video codec is
\* absent or "none" (the top-level url standing in for an entry without
\* url); with no entries, or none that qualifies, it is the top-level url.
C26_FirstAudioOnlyFormat ==
    aphase = "done" =>
        LET fmts == ainfo.requested_formats
            url == IF ainfo.url = Absent THEN "" ELSE ainfo.url
            audio == {i \in 1..Len(fmts) :
                         /\ fmts[i].acodec \notin {Absent, "none"}
                         /\ fmts[i].vcodec \in {Absent, "none"}}
        IN  aurl = IF audio = {} THEN url
                   ELSE IF fmts[Min(audio)].url = Absent THEN url
                   ELSE fmts[Min(audio)].url

-----------------------------------------------------------------------------
(* _get_url_for_quality and _pick_best_url on the same list and quality *)

QualityInit ==
    /\ qphase = "raw"
    /\ qlist \in SeqsUpTo(UrlEntries, MaxUrls)
    /\ qquality \in Preferences
    /\ qout = Absent /\ qbest = Absent
    /\ IdleBut("quality")

GetUrlForQuality ==
    /\ qphase = "raw"
    /\ qout' = _get_url_for_quality(qlist, qquality)
    /\ qbest' = _pick_best_url(qlist, qquality)
    /\ qphase' = "done"
    /\ UNCHANGED <<qlist, qquality, notQuality>>

QualityNext == GetUrlForQuality

SpecQuality == QualityInit /\ [][QualityNext]_vars

\* C29: for every list and quality, _get_url_for_quality returns what
\* _pick_best_url returns for the same list and quality.
C29_GetUrlEqualsPickBest ==
    qphase = "done" => qout = qbest

\* the direct lookup answers: the quality is in the list twice with
\* different urls, and the later url is returned
C29_Witness ==
    /\ qphase = "done"
    /\ Len(qlist) = 2
    /\ qlist[1].quality = qquality /\ qlist[2].quality = qquality
    /\ qlist[1].url # qlist[2].url
    /\ qout = qlist[2].url

-----------------------------------------------------------------------------
(* ytdlp_provider.py on the event loop: search_youtube, search_soundcloud
   and extract_stream_url hand the blocking extraction to the executor;
   another task (a MusicAPI.search, say) shares the loop *)

\* a faulty variant: the blocking function is called in the coroutine
CalledInline == "loop"

\* loop.run_in_executor(None, ...): a thread of the loop's default executor
ExecutorThread == "worker"

InFlight == kjob \in {"queued", "running"}

\* the loop's thread is not inside a blocking call
LoopFree == ~(kthread = "loop" /\ InFlight)

LoopInit ==
    /\ kcall = "none" /\ kpc = "idle" /\ kjob = "none" /\ kthread = "none"
    /\ kurl = Absent /\ kextract = NoExtraction /\ kinfo = NoneInfo
    /\ kresult = NoYtResult /\ ksong = NoSong /\ kother = 0 /\ kduring = 0
    /\ IdleBut("loop")

\* search_youtube / search_soundcloud up to their await, lines 198-202 and
\* 208-212
LoopSearchCall(fn) ==
    /\ kpc = "idle"
    /\ kcall' = fn
    /\ kjob' = "queued" /\ kthread' = ExecutorThread
    /\ kpc' = "await"
    /\ UNCHANGED <<kurl, kextract, kinfo, kresult, ksong, kother, kduring, notLoop>>

\* extract_stream_url up to its await, lines 222-226
LoopExtractCall ==
    /\ kpc = "idle"
    /\ kcall' = "extract_stream_url"
    /\ kurl' \in PageUrls
    /\ kjob' = "queued" /\ kthread' = ExecutorThread
    /\ kpc' = "await"
    /\ UNCHANGED <<kextract, kinfo, kresult, ksong, kother, kduring, notLoop>>

\* the thread enters the blocking function
WorkerStart ==
    /\ kjob = "queued"
    /\ kjob' = "running"
    /\ UNCHANGED <<kcall, kpc, kthread, kurl, kextract, kinfo, kresult, ksong,
                   kother, kduring, notLoop>>

\* the blocking function returns and the future is completed
WorkerFinish ==
    /\ kjob = "running"
    /\ IF kcall = "extract_stream_url"
       THEN kinfo' \in ExtractResults /\ UNCHANGED kextract
       ELSE kextract' \in Extractions /\ UNCHANGED kinfo
    /\ kjob' = "done"
    /\ UNCHANGED <<kcall, kpc, kthread, kurl, kresult, ksong, kother, kduring,
                   notLoop>>

\* the completed future wakes the caller: lines 203, 213 and 227-231
LoopResume ==
    /\ kpc = "await" /\ kjob = "done"
    /\ IF kcall = "extract_stream_url"
       THEN /\ ksong' = extract_stream_url(kurl, kinfo)
            /\ kpc' = "ret"
            /\ UNCHANGED kresult
       ELSE /\ kresult' = NormalizeAll(_ytdlp_search_sync(kextract),
                                       IF kcall = "search_youtube" THEN "youtube"
                                                                   ELSE "soundcloud")
            /\ kpc' = IF kresult'.raised = NoError THEN "ret" ELSE "raised"
            /\ UNCHANGED ksong
    /\ UNCHANGED <<kcall, kjob, kthread, kurl, kextract, kinfo, kother, kduring,
                   notLoop>>

\* another task of the loop runs from one await to its next
OtherTaskStep ==
    /\ kother < MaxOtherSteps
    /\ LoopFree
    /\ kother' = kother + 1
    /\ kduring' = IF InFlight THEN kduring + 1 ELSE kduring
    /\ UNCHANGED <<kcall, kpc, kjob, kthread, kurl, kextract, kinfo, kresult,
                   ksong, notLoop>>

LoopNext ==
    \/ \E fn \in {"search_youtube", "search_soundcloud"} : LoopSearchCall(fn)
    \/ LoopExtractCall
    \/ WorkerStart
    \/ WorkerFinish
    \/ LoopResume
    \/ OtherTaskStep

SpecLoop == LoopInit /\ [][LoopNext]_vars

\* C27: while the blocking extraction of search_youtube, search_soundcloud
\* or extract_stream_url is in flight it runs on a worker thread and not on
\* the event loop, another task of the loop can take a step, and the caller
\* has resumed only when the worker has completed.
C27_ExtractionOffTheLoop ==
    /\ InFlight => kthread = "worker" /\ kpc = "await"
    /\ (InFlight /\ kother < MaxOtherSteps) => ENABLED OtherTaskStep
    /\ kpc \in {"ret", "raised"} => kjob = "done"

\* the other task stepped while the extraction ran, then the caller resumed
C27_Witness ==
    /\ kcall = "search_youtube" /\ kpc = "ret"
    /\ kduring > 0

-----------------------------------------------------------------------------
(* ensure_download_urls and refresh_song as two tasks of one event loop on
   the same song: each step runs one task from an await to its next.
   ensure_download_urls is called again and again, refresh_song once. *)

ConcurrentNext ==
    \/ EnsureCall
    \/ EnsureMirrorReply
    \/ EnsureResume
    \/ EnsureReturn
    \/ RefreshCall
    \/ ExtractDone
    \/ RefreshResume

SpecConcurrent == SongInit /\ [][ConcurrentNext]_vars

\* the record a resuming task holds
FetchedBy(task) ==
    IF task = "ensure" THEN MirrorSong(ereply)
    ELSE extract_stream_url(song.webpage_url, rinfo)

\* C28: under any interleaving of ensure_download_urls and refresh_song on
\* the same song, every step that changes the song is the resumption of one
\* of the two calls and leaves best_url and download_urls both equal to
\* those of the one record that call fetched, all other fields as they were:
\* no state has one field written and the other pending.
C28_NoTornPair ==
    [][song' # song =>
          /\ \E task \in {"ensure", "refresh"} :
                /\ IF task = "ensure" THEN epc = "resume" /\ epc' = "ret"
                                      ELSE rpc = "resume" /\ rpc' = "ret"
                /\ FetchedBy(task) # NoSong
                /\ song'.best_url = FetchedBy(task).best_url
                /\ song'.download_urls = FetchedBy(task).download_urls
          /\ song' = [song EXCEPT !.best_url = song'.best_url,
                                  !.download_urls = song'.download_urls]]_vars

\* refresh_song has written its pair while ensure_download_urls, called on
\* the incomplete song, holds a mirror's record it is about to write
C28_Witness ==
    /\ epc = "resume" /\ rpc = "ret" /\ routcome = "refreshed"
    /\ AlreadyComplete(song)
    /\ MirrorSong(ereply) # NoSong /\ MirrorSong(ereply).download_urls # <<>>
    /\ MirrorSong(ereply).best_url # song.best_url

-----------------------------------------------------------------------------
(* WebSearcher.search and search_news, called one after another while the
   clock advances *)

WebInit ==
    /\ wpc = "idle" /\ wtype = "none" /\ wquery = <<>> /\ wcache = EmptyCache
    /\ wnow = 0 /\ wbefore = EmptyCache /\ wupstream = 0 /\ wresp = NoResponse
    /\ IdleBut("web")

\* search (search_type "web") and search_news ("news") up to the return of
\* the cached response or the await of the upstream search: lines 94-101
\* and 118-125
WebSearchCall(search_type, query) ==
    /\ wpc = "idle"
    /\ wtype' = search_type /\ wquery' = query
    /\ wbefore' = wcache
    /\ LET cache_key == _cache_key(query, search_type)
       IN  /\ wcache' = _get_cached(wcache, cache_key, wnow)
           /\ IF CacheHit(wcache, cache_key, wnow)
              THEN /\ wresp' = wcache'[cache_key].response
                   /\ wpc' = "ret" /\ wupstream' = 0
              ELSE /\ wresp' = NoResponse
                   /\ wpc' = "await" /\ wupstream' = 1
    /\ UNCHANGED <<wnow, notWeb>>

\* the awaited upstream search ends: lines 102-111 and 126-135
UpstreamAnswer ==
    /\ wpc = "await"
    /\ \E out \in UpstreamOutcomes :
          IF out.kind = "results"
          THEN LET response == SearchResponse(wquery, out.results, wtype, FALSE,
                                              NoErrorText)
               IN  /\ wcache' = _set_cached(wcache, _cache_key(wquery, wtype),
                                            response, wnow)
                   /\ wresp' = response
          ELSE /\ wresp' = SearchResponse(
                              wquery, <<>>, "web", FALSE,
                              IF out.kind = "timeout"
                              THEN IF wtype = "web"
                                   THEN "Search timed out. Please try again."
                                   ELSE "News search timed out. Please try again."
                              ELSE IF wtype = "web" THEN "Search failed: exc"
                                   ELSE "News search failed: exc")
               /\ UNCHANGED wcache
    /\ wpc' = "ret"
    /\ UNCHANGED <<wtype, wquery, wnow, wbefore, wupstream, notWeb>>

\* the caller has the response
WebReturn ==
    /\ wpc = "ret"
    /\ wpc' = "idle"
    /\ wtype' = "none" /\ wquery' = <<>>
    /\ wbefore' = EmptyCache /\ wupstream' = 0 /\ wresp' = NoResponse
    /\ UNCHANGED <<wcache, wnow, notWeb>>

\* time passes
Tick ==
    /\ wnow < MaxTime
    /\ wnow' = wnow + 1
    /\ UNCHANGED <<wpc, wtype, wquery, wcache, wbefore, wupstream, wresp, notWeb>>

WebNext ==
    \/ \E search_type \in {"web", "news"}, query \in WebQueries :
          WebSearchCall(search_type, query)
    \/ UpstreamAnswer
    \/ WebReturn
    \/ Tick

SpecWeb == WebInit /\ [][WebNext]_vars

\* the queries the claim calls identical: same type, same lower-cased
\* trimmed text
SameQuery(response, search_type, query) ==
    /\ response.search_type = search_type
    /\ Strip(str_lower(response.query)) = Strip(str_lower(query))

\* an entry of cache stored for the same query less than the TTL before now
Fresh(cache, search_type, query, now) ==
    {k \in DOMAIN cache :
        /\ SameQuery(cache[k].response, search_type, query)
        /\ now - cache[k].ts < CacheTtl}

\* C30 as stated, the failed search: a search that timed out or raised
\* returns an error response and leaves the cache as it found it.
C30_FailedSearchLeavesCacheUnchanged ==
    (wpc = "ret" /\ wupstream = 1 /\ wresp.error # NoErrorText) =>
        wcache = wbefore

\* C30, amended: every cache entry holds a response with error = None; a
\* search that timed out or raised returns an error response and stores
\* nothing (the cache is as the call found it, less the expired entry of the
\* query if there was one, so the query has no entry); a call for a query
\* with an entry stored less than the TTL earlier returns that entry's
\* response with cached = true and starts no upstream search, and every
\* other call starts one.
C30_CacheHoldsOnlySuccesses ==
    /\ [](\A k \in DOMAIN wcache : wcache[k].response.error = NoErrorText)
    /\ []((wpc = "ret" /\ wupstream = 1 /\ wresp.error # NoErrorText) =>
            /\ wresp.error \in {"Search timed out. Please try again.",
                                "News search timed out. Please try again.",
                                "Search failed: exc", "News search failed: exc"}
            /\ Fresh(wcache, wtype, wquery, wnow) = {}
            /\ \E gone \in SUBSET (DOMAIN wbefore) :
                  /\ \A k \in gone : SameQuery(wbefore[k].response, wtype, wquery)
                  /\ wcache = [k \in (DOMAIN wbefore) \ gone |-> wbefore[k]])
    /\ [][(wpc = "idle" /\ wpc' # "idle") =>
            LET fresh == Fresh(wcache, wtype', wquery', wnow)
            IN  IF fresh # {}
                THEN /\ wpc' = "ret" /\ wupstream' = 0
                     /\ wresp'.cached /\ wresp'.error = NoErrorText
                     /\ \E k \in fresh :
                           wresp'.results = wcache[k].response.results
                ELSE wpc' = "await" /\ wupstream' = 1]_vars

\* a query answered from the cache although typed in another case and with
\* blanks around
C30_Witness ==
    /\ wpc = "ret" /\ wupstream = 0
    /\ wresp.cached /\ wresp.query # wquery
    /\ wresp.results # <<>>

\* a failed search after which the query's expired entry is gone
C30_WitnessFailed ==
    /\ wpc = "ret" /\ wupstream = 1 /\ wresp.error # NoErrorText
    /\ wcache # wbefore

====
